---------------------------- MODULE Spec2Model ----------------------------
(***************************************************************************)
(* A model of the PhysicsEngine of js/physics.js: per-region spring-damper *)
(* state, the delayed force history, the press points and the per-vertex   *)
(* displacement aggregation.                                               *)
(*                                                                         *)
(* Numbers.  The program computes in IEEE doubles; the model computes in   *)
(* fixed point, every product and quotient rounded to the nearest unit:    *)
(*   - pixel quantities (position, velocity, force), the engine parameters *)
(*     (stiffness, damping, mass, sensitivity, thresholds), normalized     *)
(*     coordinates and angles (radians) are held in thousandths (S);       *)
(*   - influence weights are held in ten-thousandths (U);                  *)
(*   - press depths are held in millionths (D).                            *)
(* Math.random() is a choice from a small set of values of [0,1), held in  *)
(* thousandths.                                                            *)
(***************************************************************************)
EXTENDS Integers, Sequences, FiniteSets, TLC

S == 10^3
U == 10^4
D == 10^6

(***************************************************************************)
(* Arithmetic helpers                                                      *)
(***************************************************************************)
Abs(a) == IF a < 0 THEN -a ELSE a
Max(a, b) == IF a >= b THEN a ELSE b
Min(a, b) == IF a <= b THEN a ELSE b

\* a / b rounded to the nearest integer, halves away from zero (b # 0)
RDivNat(a, b) == a \div b + (IF 2 * (a % b) >= b THEN 1 ELSE 0)
RDivPos(a, b) == IF a >= 0 THEN RDivNat(a, b) ELSE -RDivNat(-a, b)
RDiv(a, b) == IF b > 0 THEN RDivPos(a, b) ELSE RDivPos(-a, -b)

\* product of two numbers of scale sc, in scale sc
MulS(a, b) == RDiv(a * b, S)
MulU(a, b) == RDiv(a * b, U)

\* Math.sqrt on a non-negative integer: the floor of the square root
RECURSIVE SqrtIter(_, _)
SqrtIter(n, g) == LET h == (g + n \div g) \div 2
                  IN  IF h >= g THEN g ELSE SqrtIter(n, h)
Sqrt(n) == IF n <= 0 THEN 0 ELSE SqrtIter(n, n)

\* Math.exp(-u): u >= 0 and the result in scale U
RECURSIVE ExpNeg(_)
ExpNeg(u) ==
    IF u >= 12 * U THEN 0
    ELSE IF u > U \div 8
         THEN LET h == ExpNeg(u \div 2)
                  g == ExpNeg(u - u \div 2)
              IN  MulU(h, g)
         ELSE LET u2 == MulU(u, u)
                  u3 == MulU(u2, u)
              IN  U - u + RDiv(u2, 2) - RDiv(u3, 6)

\* Math.cos and Math.sin: the angle in thousandths of a radian, the result
\* in scale S
PiS == 3142
CosQ(x) == LET x2 == MulS(x, x)
           IN  S - MulS(RDiv(x2, 2),
                   S - MulS(RDiv(x2, 12),
                       S - MulS(RDiv(x2, 30), S - RDiv(x2, 56))))
SinQ(x) == LET x2 == MulS(x, x)
           IN  MulS(x, S - MulS(RDiv(x2, 6),
                       S - MulS(RDiv(x2, 20),
                           S - MulS(RDiv(x2, 42), S - RDiv(x2, 72)))))
Cos(a) == LET x == Abs(a) % (2 * PiS)
              y == IF x > PiS THEN 2 * PiS - x ELSE x
          IN  IF 2 * y > PiS THEN -CosQ(PiS - y) ELSE CosQ(y)
Sin(a) == LET x == Abs(a) % (2 * PiS)
              y == IF x > PiS THEN 2 * PiS - x ELSE x
              v == IF 2 * y > PiS THEN SinQ(PiS - y) ELSE SinQ(y)
              w == IF x > PiS THEN -v ELSE v
          IN  IF a < 0 THEN -w ELSE w

(***************************************************************************)
(* Program constants (physics.js), in the scales above                     *)
(***************************************************************************)
DefaultBaseStiffness == 80
DefaultBaseDamping == 920
DefaultSensitivity == 4000
DefaultPosThreshold == 300
DefaultVelThreshold == 50
DefaultMass == 1000
DefaultMaxDisplacement == 25000
DefaultGridDensity == 10
historyLength == 8
pressSpeed == 150
releaseSpeed == 80
fadeStart == 600
fadeEnd == 1500
\* the snap threshold of calculateVertexDisplacements (0.3 px)
threshold == 300
\* the radius of a press point's influence (0.15)
radius == 150
\* a press point is deleted, or ignored, below this depth (0.001), scale D
DepthEps == 1000

(***************************************************************************)
(* Inputs                                                                  *)
(***************************************************************************)
\* The longest sequence of Math.random() draws one handler makes
MaxDraws == 6
\* Math.random(): a handler draws its values, in order, from one stream
RandStreams == { [k \in 1..MaxDraws |-> 0],
                 [k \in 1..MaxDraws |-> 999],
                 [k \in 1..MaxDraws |-> IF k % 2 = 1 THEN 999 ELSE 0] }

RegionA == [x |-> 300, y |-> 300, width |-> 400, height |-> 400]
RegionB == [x |-> 100, y |-> 600, width |-> 300, height |-> 200]
RegionLists == { <<RegionA>>, <<RegionA, RegionB>> }

NoPattern == "undefined"
\* App before any image is loaded
NoImage == [width |-> 0, height |-> 0]
Vec(a, b) == [x |-> a, y |-> b]
\* forces handed to update, with their pattern id
StepInputs == { [force |-> Vec(0, 0), patternId |-> NoPattern],
                [force |-> Vec(10000, -10000), patternId |-> NoPattern],
                [force |-> Vec(10, 0), patternId |-> "kneadLeft"],
                [force |-> Vec(1000, 500), patternId |-> "kneadRight"] }
\* forces and pointer positions handed to applyForceAtPosition
PointerInputs == { [force |-> Vec(-9000, 2000), x |-> 500, y |-> 450],
                   [force |-> Vec(20, 10), x |-> 950, y |-> 50] }
Impulses == { Vec(3000, -1000) }
PressIds == {0, 1}
PressPositions == { Vec(450, 500), Vec(900, 100), Vec(800, 300) }
\* indices handed to removeRegion, inside and outside the list
RemoveIndices == {-1, 0, 1, 2}

VARIABLES
    baseStiffness, baseDamping, mass, sensitivity, maxDisplacement,
    posThreshold, velThreshold,
    gridDensity, gridSizeX, gridSizeY, aspectRatio, vertices,
    regions, forceHistory, pressPoints,
    calls, last, tickSteps, app

paramVars == <<baseStiffness, baseDamping, mass, sensitivity, maxDisplacement,
               posThreshold, velThreshold>>
gridVars == <<gridDensity, gridSizeX, gridSizeY, aspectRatio, vertices>>
engineVars == <<regions, forceHistory, pressPoints>>
\* what App keeps beside the engine: see AppInit
appVars == <<tickSteps, app>>
vars == <<paramVars, gridVars, engineVars, calls, last, appVars>>

(***************************************************************************)
(* Vertex grid                                                             *)
(***************************************************************************)
\* the vertices laid out column by column
initVerticesColumnMajor(gx, gy) ==
    [k \in 1..((gx + 1) * (gy + 1)) |->
        [baseX |-> RDiv(((k - 1) \div (gy + 1)) * S, gx),
         baseY |-> RDiv(((k - 1) % (gy + 1)) * S, gy),
         dx |-> 0, dy |-> 0]]

\* initVertices: row-major by y then x, base coordinates in scale S
initVertices(gx, gy) ==
    [k \in 1..((gx + 1) * (gy + 1)) |->
        [baseX |-> RDiv(((k - 1) % (gx + 1)) * S, gx),
         baseY |-> RDiv(((k - 1) \div (gx + 1)) * S, gy),
         dx |-> 0, dy |-> 0]]

(***************************************************************************)
(* Regions                                                                 *)
(***************************************************************************)
\* addRegion: the region list with `region` appended; rnd is the stream of
\* Math.random() and k the number of draws already made from it
addRegion(regs, region, rnd, k) ==
    LET index == Len(regs)
        stiffnessVariation == 700 + MulS(rnd[k + 1], 600)
        dampingVariation == 950 + MulS(rnd[k + 2], 100)
        delayFrames == index * 3 + (rnd[k + 3] * 2) \div S
    IN  Append(regs,
           [x |-> region.x, y |-> region.y,
            width |-> region.width, height |-> region.height,
            position |-> Vec(0, 0),
            velocity |-> Vec(0, 0),
            stiffness |-> MulS(baseStiffness, stiffnessVariation),
            damping |-> MulS(baseDamping, dampingVariation),
            delayFrames |-> delayFrames,
            phaseOffset |-> MulS(index * PiS, 300)])

RECURSIVE addAll(_, _, _, _)
addAll(regs, list, rnd, k) ==
    IF list = <<>> THEN regs
    ELSE addAll(addRegion(regs, Head(list), rnd, k), Tail(list), rnd, k + 3)

\* clamp with the upper limit forgotten
clampLowerOnly(value, min, max) == Max(min, value)
clamp(value, min, max) == Max(min, Min(max, value))

\* A region with position (0,0) and velocity (0,0)
AtRest(region) == region.position = Vec(0, 0) /\ region.velocity = Vec(0, 0)

(***************************************************************************)
(* Influence field                                                         *)
(***************************************************************************)
\* NaN, the value of 0/0; no other quantity of the model comes near it
NaN == -1073741824

\* (p - c) / (extent / 2), saturated at 2: beyond it the ellipse distance
\* exceeds fadeEnd and the falloff is 0 whatever the exact value.  With a
\* zero extent the quotient is infinite, or NaN when p = c.
normalizedOffset(p, c, extent) ==
    IF extent = 0
    THEN IF p = c THEN NaN ELSE IF p > c THEN 2 * S ELSE -2 * S
    ELSE clamp(RDiv((p - c) * 2 * S, extent), -2 * S, 2 * S)

\* The branch of the falloff for ellipseDist < fadeStart, in scale U
influenceCore(ellipseDist) ==
    ExpNeg(RDiv(MulS(ellipseDist, ellipseDist) * (U \div S), 2))

\* the second branch of the falloff without its floor at 0
influenceFadeUnfloored(ellipseDist) ==
    LET t == RDiv((ellipseDist - fadeStart) * S, fadeEnd - fadeStart)
        smoothT == S - MulS(MulS(t, t), t)
        centerValue == ExpNeg(RDiv(MulS(fadeStart, fadeStart) * (U \div S), 2))
    IN  RDiv(centerValue * smoothT, S)

\* the falloff with its second branch starting from 1 instead of from the
\* value of the first branch at fadeStart
influenceFadeFromOne(ellipseDist) ==
    LET t == RDiv((ellipseDist - fadeStart) * S, fadeEnd - fadeStart)
        smoothT == Max(0, S - MulS(MulS(t, t), t))
    IN  RDiv(U * smoothT, S)

\* The branch of the falloff for ellipseDist >= fadeStart, in scale U
influenceFade(ellipseDist) ==
    LET t == RDiv((ellipseDist - fadeStart) * S, fadeEnd - fadeStart)
        smoothT == Max(0, S - MulS(MulS(t, t), t))
        centerValue == ExpNeg(RDiv(MulS(fadeStart, fadeStart) * (U \div S), 2))
    IN  RDiv(centerValue * smoothT, S)

\* The vertical bias multiplier, in scale S
verticalBias(cy, py) == Max(500, Min(1500, S + RDiv(cy - py, 2)))

\* The centre of a region's box
centreOf(region) ==
    Vec(region.x + RDiv(region.width, 2), region.y + RDiv(region.height, 2))

\* The normalized ellipse distance of (px, py) from the region's centre, in
\* scale S, or NaN
ellipseDistance(px, py, region) ==
    LET rx == normalizedOffset(px, centreOf(region).x, region.width)
        ry == normalizedOffset(py, centreOf(region).y, region.height)
    IN  IF rx = NaN \/ ry = NaN THEN NaN ELSE Sqrt(rx * rx + ry * ry)

\* calculateRegionInfluence(px, py, region), result in scale U, or NaN
calculateRegionInfluence(px, py, region) ==
    LET ellipseDist == ellipseDistance(px, py, region)
        influence ==
            IF ellipseDist < fadeStart
            THEN influenceCore(ellipseDist)
            ELSE influenceFade(ellipseDist)
    IN  IF ellipseDist = NaN
        THEN NaN
        ELSE RDiv(influence * verticalBias(centreOf(region).y, py), S)

(***************************************************************************)
(* Press points                                                            *)
(***************************************************************************)
\* the easing with the two rates exchanged
easePointRatesSwapped(point) ==
    IF point.targetDepth > 0
    THEN [point EXCEPT !.depth =
             @ + RDiv((point.targetDepth - @) * releaseSpeed, S)]
    ELSE [point EXCEPT !.depth =
             @ + RDiv((point.targetDepth - @) * pressSpeed, S)]

\* One point eased by updatePressState
easePoint(point) ==
    IF point.targetDepth > 0
    THEN [point EXCEPT !.depth =
             @ + RDiv((point.targetDepth - @) * pressSpeed, S)]
    ELSE [point EXCEPT !.depth =
             @ + RDiv((point.targetDepth - @) * releaseSpeed, S)]

\* updatePressState with the deletion forgotten
updatePressStateKeepsAll(points) ==
    [id \in DOMAIN points |-> easePoint(points[id])]

\* updatePressState deleting a released point a hundred times too early
updatePressStateDeletesEarly(points) ==
    LET eased == [id \in DOMAIN points |-> easePoint(points[id])]
        toDelete == { id \in DOMAIN points :
                        /\ ~(points[id].targetDepth > 0)
                        /\ Abs(eased[id].depth) < DepthEps * 100 }
    IN  [id \in (DOMAIN points) \ toDelete |-> eased[id]]

\* updatePressState: the press points after one easing step and the
\* deletion of the released points whose depth has run out
updatePressState(points) ==
    LET eased == [id \in DOMAIN points |-> easePoint(points[id])]
        toDelete == { id \in DOMAIN points :
                        /\ ~(points[id].targetDepth > 0)
                        /\ Abs(eased[id].depth) < DepthEps }
    IN  [id \in (DOMAIN points) \ toDelete |-> eased[id]]

(***************************************************************************)
(* The simulation step                                                     *)
(***************************************************************************)
\* the history dropping its newest entry when it is full
pushForceDropsNewest(history, entry) ==
    LET pushed == <<entry>> \o history
    IN  IF Len(pushed) > historyLength
        THEN SubSeq(pushed, 2, Len(pushed))
        ELSE pushed

\* The force history after update's unshift and pop
pushForce(history, entry) ==
    LET pushed == <<entry>> \o history
    IN  IF Len(pushed) > historyLength
        THEN SubSeq(pushed, 1, Len(pushed) - 1)
        ELSE pushed

\* the selection without the cap at the history's length: an index beyond
\* the history gives the default entry
delayedForceUncapped(history, region) ==
    LET delayIndex == Min(region.delayFrames, historyLength - 1)
    IN  IF delayIndex + 1 \in DOMAIN history
        THEN history[delayIndex + 1]
        ELSE [x |-> 0, y |-> 0, patternId |-> "null"]

\* The history entry update selects for a region
delayedForce(history, region) ==
    LET delayIndex == Min(region.delayFrames, Len(history) - 1)
    IN  IF delayIndex + 1 \in DOMAIN history
        THEN history[delayIndex + 1]
        ELSE [x |-> 0, y |-> 0, patternId |-> "null"]

\* the mirroring applied to every region, whatever its index
appliedForceAllMirrored(i, e) ==
    IF e.patternId = "kneadLeft" \/ e.patternId = "kneadRight"
    THEN Vec(-e.x, e.y)
    ELSE Vec(e.x, e.y)

\* The force update applies to region i (0-based) from history entry e
appliedForce(i, e) ==
    IF (e.patternId = "kneadLeft" \/ e.patternId = "kneadRight") /\ i % 2 = 1
    THEN Vec(-e.x, e.y)
    ELSE Vec(e.x, e.y)

\* the snap zeroing the position and keeping the velocity
snapPositionOnly(p, v) ==
    IF Abs(p) < posThreshold /\ Abs(v) < velThreshold
    THEN <<0, v>> ELSE <<p, v>>

\* The anti-jitter snap of one axis: <<position, velocity>>
snapAxis(p, v) ==
    IF Abs(p) < posThreshold /\ Abs(v) < velThreshold
    THEN <<0, 0>> ELSE <<p, v>>

\* the integration with the damping force left out
integrateAxisUndamped(region, p, v, f) ==
    LET springForce == -MulS(region.stiffness, p)
        a == RDiv((springForce + f) * S, mass)
        v1 == v + a
        p1 == clamp(p + v1, -maxDisplacement, maxDisplacement)
    IN  snapAxis(p1, v1)

\* the integration with the sign of the spring force wrong
integrateAxisSpringSign(region, p, v, f) ==
    LET springForce == MulS(region.stiffness, p)
        dampingForce == -MulS(region.damping, v)
        a == RDiv((springForce + dampingForce + f) * S, mass)
        v1 == v + a
        p1 == clamp(p + v1, -maxDisplacement, maxDisplacement)
    IN  snapAxis(p1, v1)

\* One axis of update's integration: spring, damping, velocity, position,
\* clamp, snap.  <<position, velocity>>
integrateAxis(region, p, v, f) ==
    LET springForce == -MulS(region.stiffness, p)
        dampingForce == -MulS(region.damping, v)
        a == RDiv((springForce + dampingForce + f) * S, mass)
        v1 == v + a
        p1 == clamp(p + v1, -maxDisplacement, maxDisplacement)
    IN  snapAxis(p1, v1)

\* A region after update's loop body, under the applied force f
integrate(region, f) ==
    LET ax == integrateAxis(region, region.position.x, region.velocity.x, f.x)
        ay == integrateAxis(region, region.position.y, region.velocity.y, f.y)
    IN  [region EXCEPT !.position = Vec(ax[1], ay[1]),
                       !.velocity = Vec(ax[2], ay[2])]


\* the loop body adding to the force the position of the list's first region
updateRegionAtCoupled(regs, history, i) ==
    LET f == appliedForce(i - 1, delayedForce(history, regs[i]))
    IN  [regs EXCEPT ![i] = integrate(regs[i], Vec(f.x + regs[1].position.x, f.y))]

\* The body of update's loop for the region at index i (from 1) of the list
updateRegionAt(regs, history, i) ==
    [regs EXCEPT ![i] = integrate(regs[i],
                            appliedForce(i - 1, delayedForce(history, regs[i])))]

\* update's loop over the regions, taking them in the given order
RECURSIVE updateInOrder(_, _, _)
updateInOrder(regs, history, order) ==
    IF order = <<>> THEN regs
    ELSE updateInOrder(updateRegionAt(regs, history, Head(order)), history, Tail(order))

\* The copy of the integration in applyForceAtPosition, one axis
integrateAxisAt(region, p, v, f) ==
    LET springForce == -MulS(region.stiffness, p)
        dampingForce == -MulS(region.damping, v)
        a == RDiv((springForce + dampingForce + f) * S, mass)
        v1 == v + a
        p1 == clamp(p + v1, -maxDisplacement, maxDisplacement)
    IN  IF Abs(p1) < posThreshold /\ Abs(v1) < velThreshold
        THEN <<0, 0>> ELSE <<p1, v1>>

\* A region after applyForceAtPosition's loop body
forceAtRegion(region, forceX, forceY, posX, posY) ==
    LET influence == calculateRegionInfluence(posX, posY, region)
        ax == integrateAxisAt(region, region.position.x, region.velocity.x,
                              RDiv(forceX * influence, U))
        ay == integrateAxisAt(region, region.position.y, region.velocity.y,
                              RDiv(forceY * influence, U))
    IN  IF influence > U \div 100
        THEN [region EXCEPT !.position = Vec(ax[1], ay[1]),
                            !.velocity = Vec(ax[2], ay[2])]
        ELSE region

\* the impulse also moving the region by the kick
impulseMovesRegion(region, ix, iy, r1, r2) ==
    [region EXCEPT !.velocity = Vec(@.x + ix, @.y + iy),
                   !.position = Vec(@.x + ix, @.y + iy)]

\* A region after applyImpulse's loop body; r1 and r2 are its two draws
impulseRegion(region, ix, iy, r1, r2) ==
    LET angle == region.phaseOffset + MulS(r1, 500)
        magnitude == 700 + MulS(r2, 600)
        rotatedX == MulS(ix, Cos(angle)) - MulS(MulS(iy, Sin(angle)), 300)
        rotatedY == MulS(iy, Cos(angle)) + MulS(MulS(ix, Sin(angle)), 300)
    IN  [region EXCEPT !.velocity =
            Vec(@.x + MulS(rotatedX, magnitude), @.y + MulS(rotatedY, magnitude))]

\* endPress: the distance-based influence of a press point on a region
releaseInfluence(point, region) ==
    LET cx == region.x + RDiv(region.width, 2)
        cy == region.y + RDiv(region.height, 2)
        dx == point.x - cx
        dy == point.y - cy
        dist == Sqrt(dx * dx + dy * dy)
    IN  Max(0, S - dist * 2)

\* the release impulse without its test of the influence
releaseRegionUntested(region, point, r) ==
    LET releaseMagnitude == RDiv(point.depth * 8, D \div S)
        cx == region.x + RDiv(region.width, 2)
        cy == region.y + RDiv(region.height, 2)
        dx == point.x - cx
        dy == point.y - cy
        dist == Sqrt(dx * dx + dy * dy)
        influence == S - dist * 2
        cosA == IF dist = 0 THEN S ELSE RDiv((cx - point.x) * S, dist)
        sinA == IF dist = 0 THEN 0 ELSE RDiv((cy - point.y) * S, dist)
        randomOffset == MulS(r - 500, 300)
        c == MulS(cosA, Cos(randomOffset)) - MulS(sinA, Sin(randomOffset))
        s == MulS(sinA, Cos(randomOffset)) + MulS(cosA, Sin(randomOffset))
        kick == MulS(releaseMagnitude, influence)
    IN  [region EXCEPT !.velocity =
            Vec(@.x + MulS(MulS(c, kick), 500),
                @.y + MulS(MulS(s, kick), 500) - MulS(kick, 800))]

\* A region after endPress's loop body; r is its draw.  cos and sin of
\* atan2(cy - y, cx - x) + randomOffset are taken by the angle-sum formulas
\* from the unit vector towards the region's centre (atan2(0, 0) = 0).
releaseRegion(region, point, r) ==
    LET releaseMagnitude == RDiv(point.depth * 8, D \div S)
        cx == region.x + RDiv(region.width, 2)
        cy == region.y + RDiv(region.height, 2)
        dx == point.x - cx
        dy == point.y - cy
        dist == Sqrt(dx * dx + dy * dy)
        influence == releaseInfluence(point, region)
        cosA == IF dist = 0 THEN S ELSE RDiv((cx - point.x) * S, dist)
        sinA == IF dist = 0 THEN 0 ELSE RDiv((cy - point.y) * S, dist)
        randomOffset == MulS(r - 500, 300)
        c == MulS(cosA, Cos(randomOffset)) - MulS(sinA, Sin(randomOffset))
        s == MulS(sinA, Cos(randomOffset)) + MulS(cosA, Sin(randomOffset))
        kick == MulS(releaseMagnitude, influence)
    IN  IF influence > 0
        THEN [region EXCEPT !.velocity =
                Vec(@.x + MulS(MulS(c, kick), 500),
                    @.y + MulS(MulS(s, kick), 500) - MulS(kick, 800))]
        ELSE region

\* new MotionSensor(callback): its fields, and beside them what the window
\* holds for it: whether its listeners are attached (listening), the
\* interval timers that are set (timers) and the id the next one gets
NewSensor ==
    [isRunning |-> FALSE, autoSwayInterval |-> 0, autoEnabled |-> FALSE,
     manualEnabled |-> TRUE, sensorEnabled |-> FALSE,
     listening |-> FALSE, timers |-> {}, nextTimer |-> 1]

(***************************************************************************)
(* The engine's operations.  Each records itself in `last`.                *)
(***************************************************************************)
Init ==
    /\ baseStiffness = DefaultBaseStiffness
    /\ baseDamping = DefaultBaseDamping
    /\ mass = DefaultMass
    /\ sensitivity = DefaultSensitivity
    /\ maxDisplacement = DefaultMaxDisplacement
    /\ posThreshold = DefaultPosThreshold
    /\ velThreshold = DefaultVelThreshold
    /\ gridDensity = DefaultGridDensity
    /\ gridSizeX = 10
    /\ gridSizeY = 10
    /\ aspectRatio = S
    /\ vertices = initVertices(10, 10)
    /\ regions = <<>>
    /\ forceHistory = <<>>
    /\ pressPoints = <<>>
    /\ calls = 0
    /\ last = [op |-> "constructor"]
    /\ tickSteps = 0
    /\ app = [regions |-> <<>>, presets |-> <<>>, loading |-> 0, image |-> NoImage,
              shown |-> NoImage, loads |-> <<>>, sensor |-> NewSensor]

\* addRegion as an operation of the engine
addRegionCall(region, rnd) ==
    /\ regions' = addRegion(regions, region, rnd, 0)
    /\ last' = [op |-> "addRegion"]
    /\ UNCHANGED <<paramVars, gridVars, forceHistory, pressPoints>>

setRegions(list, rnd) ==
    /\ regions' = addAll(<<>>, list, rnd, 0)
    /\ forceHistory' = <<>>
    /\ last' = [op |-> "setRegions"]
    /\ UNCHANGED <<paramVars, gridVars, pressPoints>>

clearRegions ==
    /\ regions' = <<>>
    /\ forceHistory' = <<>>
    /\ last' = [op |-> "clearRegions"]
    /\ UNCHANGED <<paramVars, gridVars, pressPoints>>

\* removeRegion without its range test: splice counts a negative index
\* from the end of the list
removeRegionUnguarded(index) ==
    LET at == IF index < 0 THEN Max(0, Len(regions) + index)
              ELSE Min(index, Len(regions))
    IN  /\ regions' = SubSeq(regions, 1, at) \o SubSeq(regions, at + 2, Len(regions))
        /\ last' = [op |-> "removeRegion", index |-> index,
                     found |-> (index >= 0 /\ index < Len(regions))]
        /\ UNCHANGED <<paramVars, gridVars, forceHistory, pressPoints>>

removeRegion(index) ==
    /\ regions' = IF index >= 0 /\ index < Len(regions)
                  THEN SubSeq(regions, 1, index)
                         \o SubSeq(regions, index + 2, Len(regions))
                  ELSE regions
    /\ last' = [op |-> "removeRegion", index |-> index,
                 found |-> (index >= 0 /\ index < Len(regions))]
    /\ UNCHANGED <<paramVars, gridVars, forceHistory, pressPoints>>

update(force, patternId) ==
    LET forceX == MulS(force.x, sensitivity)
        forceY == MulS(force.y, sensitivity)
        history == pushForce(forceHistory,
                       [x |-> forceX, y |-> forceY, patternId |-> patternId])
        applied == [k \in 1..Len(regions) |->
                       appliedForce(k - 1, delayedForce(history, regions[k]))]
        \* whether zero-force updates, and nothing else, followed the last reset
        zeroSinceReset ==
            /\ force = Vec(0, 0)
            /\ \/ last.op = "reset"
               \/ last.op = "update" /\ last.zeroSinceReset
    IN  /\ pressPoints' = updatePressState(pressPoints)
        /\ forceHistory' = history
        /\ regions' = updateInOrder(regions, history, [k \in 1..Len(regions) |-> k])
        /\ last' = [op |-> "update", applied |-> applied,
                     force |-> force, patternId |-> patternId,
                     full |-> Len(forceHistory) = historyLength,
                     zeroSinceReset |-> zeroSinceReset,
                     removed |-> (DOMAIN pressPoints) \ DOMAIN updatePressState(pressPoints),
                     stopped |-> /\ \E k \in DOMAIN regions : ~AtRest(regions[k])
                                 /\ \A k \in DOMAIN regions :
                                       AtRest(integrate(regions[k], applied[k]))]
        /\ UNCHANGED <<paramVars, gridVars>>

applyForceAtPosition(force, posX, posY) ==
    LET forceX == MulS(force.x, sensitivity)
        forceY == MulS(force.y, sensitivity)
    IN  /\ pressPoints' = updatePressState(pressPoints)
        /\ regions' = [k \in 1..Len(regions) |->
                          forceAtRegion(regions[k], forceX, forceY, posX, posY)]
        /\ last' = [op |-> "applyForceAtPosition",
                     force |-> force, x |-> posX, y |-> posY,
                     removed |-> (DOMAIN pressPoints) \ DOMAIN updatePressState(pressPoints)]
        /\ UNCHANGED <<paramVars, gridVars, forceHistory>>

\* applyImpulse also recording the impulse in the force history
applyImpulseRecorded(impulse, rnd) ==
    LET ix == MulS(impulse.x, sensitivity) * 5
        iy == MulS(impulse.y, sensitivity) * 5
    IN  /\ regions' = [k \in 1..Len(regions) |->
                          impulseRegion(regions[k], ix, iy,
                                        rnd[2 * k - 1], rnd[2 * k])]
        /\ forceHistory' = pushForce(forceHistory,
                               [x |-> ix, y |-> iy, patternId |-> NoPattern])
        /\ last' = [op |-> "applyImpulse"]
        /\ UNCHANGED <<paramVars, gridVars, pressPoints>>

applyImpulse(impulse, rnd) ==
    LET ix == MulS(impulse.x, sensitivity) * 5
        iy == MulS(impulse.y, sensitivity) * 5
    IN  /\ regions' = [k \in 1..Len(regions) |->
                          impulseRegion(regions[k], ix, iy,
                                        rnd[2 * k - 1], rnd[2 * k])]
        /\ last' = [op |-> "applyImpulse"]
        /\ UNCHANGED <<paramVars, gridVars, forceHistory, pressPoints>>

startPress(id, x, y) ==
    /\ pressPoints' = [i \in (DOMAIN pressPoints) \cup {id} |->
                          IF i = id
                          THEN [x |-> x, y |-> y, depth |-> 0, targetDepth |-> D]
                          ELSE pressPoints[i]]
    /\ last' = [op |-> "startPress", id |-> id]
    /\ UNCHANGED <<paramVars, gridVars, regions, forceHistory>>

updatePressPosition(id, x, y) ==
    /\ pressPoints' = IF id \in DOMAIN pressPoints
                      THEN [pressPoints EXCEPT ![id].x = x, ![id].y = y]
                      ELSE pressPoints
    /\ last' = [op |-> "updatePressPosition", id |-> id,
                 found |-> id \in DOMAIN pressPoints]
    /\ UNCHANGED <<paramVars, gridVars, regions, forceHistory>>

\* The number of the draw endPress makes for region k: one per region its
\* point influences, in list order
releaseDraw(point, k) ==
    1 + Cardinality({ j \in 1..(k - 1) : releaseInfluence(point, regions[j]) > 0 })

endPress(id, rnd) ==
    /\ IF id \in DOMAIN pressPoints
       THEN /\ regions' = [k \in 1..Len(regions) |->
                              releaseRegion(regions[k], pressPoints[id],
                                            rnd[releaseDraw(pressPoints[id], k)])]
            /\ pressPoints' = [pressPoints EXCEPT ![id].targetDepth = 0]
       ELSE UNCHANGED <<regions, pressPoints>>
    /\ last' = [op |-> "endPress", id |-> id, found |-> id \in DOMAIN pressPoints]
    /\ UNCHANGED <<paramVars, gridVars, forceHistory>>

\* reset zeroing the positions and keeping the velocities
resetKeepsVelocity ==
    /\ regions' = [k \in 1..Len(regions) |->
                      [regions[k] EXCEPT !.position = Vec(0, 0)]]
    /\ vertices' = vertices
    /\ forceHistory' = <<>>
    /\ last' = [op |-> "reset", dropped |-> Len(forceHistory),
                 moving |-> Cardinality({ k \in DOMAIN regions :
                               \/ regions[k].position # Vec(0, 0)
                               \/ regions[k].velocity # Vec(0, 0) })]
    /\ UNCHANGED <<paramVars, gridDensity, gridSizeX, gridSizeY, aspectRatio,
                   pressPoints>>

reset ==
    /\ regions' = [k \in 1..Len(regions) |->
                      [regions[k] EXCEPT !.position = Vec(0, 0),
                                         !.velocity = Vec(0, 0)]]
    /\ vertices' = [k \in 1..Len(vertices) |->
                       [vertices[k] EXCEPT !.dx = 0, !.dy = 0]]
    /\ forceHistory' = <<>>
    /\ last' = [op |-> "reset", dropped |-> Len(forceHistory),
                 moving |-> Cardinality({ k \in DOMAIN regions :
                               \/ regions[k].position # Vec(0, 0)
                               \/ regions[k].velocity # Vec(0, 0) })]
    /\ UNCHANGED <<paramVars, gridDensity, gridSizeX, gridSizeY, aspectRatio,
                   pressPoints>>

(***************************************************************************)
(* Spec: the engine driven by its callers, a bounded number of calls       *)
(***************************************************************************)
MaxCalls == 4
Call == calls < MaxCalls /\ calls' = calls + 1 /\ UNCHANGED appVars

Next ==
    \/ Call /\ \E list \in RegionLists, rnd \in RandStreams : setRegions(list, rnd)
    \/ Call /\ \E in \in StepInputs : update(in.force, in.patternId)
    \/ Call /\ \E in \in PointerInputs : applyForceAtPosition(in.force, in.x, in.y)
    \/ Call /\ \E i \in Impulses, rnd \in RandStreams : applyImpulse(i, rnd)
    \/ Call /\ \E id \in PressIds, p \in PressPositions : startPress(id, p.x, p.y)
    \/ Call /\ \E id \in PressIds, rnd \in RandStreams : endPress(id, rnd)
    \/ Call /\ \E id \in PressIds, p \in PressPositions : updatePressPosition(id, p.x, p.y)
    \/ Call /\ \E index \in RemoveIndices : removeRegion(index)
    \/ Call /\ reset
    \/ Call /\ clearRegions

Spec == Init /\ [][Next]_vars


(***************************************************************************)
(* Displacement aggregation                                                *)
(***************************************************************************)
\* The sum of f over a finite set of keys
RECURSIVE SumOver(_, _)


SumOver(f, keys) ==
    IF keys = {} THEN 0
    ELSE LET k == CHOOSE j \in keys : TRUE
         IN  f[k] + SumOver(f, keys \ {k})

RECURSIVE MaxOver(_, _)
MaxOver(f, keys) ==
    IF keys = {} THEN 0
    ELSE LET k == CHOOSE j \in keys : TRUE
         IN  Max(f[k], MaxOver(f, keys \ {k}))

\* the press contribution without the region gate and without the region
\* weight
pressContributionUnweighted(v, point, regionInfluence) ==
    LET dx == v.baseX - point.x
        dy == v.baseY - point.y
        dist2 == dx * dx + dy * dy
        dist == Sqrt(dist2)
        pressInfluence == ExpNeg(RDiv(dist2 * S, RDiv(2 * radius * radius * S, U)))
        pressDisplacement == RDiv(point.depth * 15, D \div S)
        pushed == MulU(pressDisplacement, pressInfluence)
        normalX == RDiv(dx * S, dist)
        normalY == RDiv(dy * S, dist)
        halfR == RDiv(radius, 2)
        centerInfluence == ExpNeg(RDiv(dist2 * S, RDiv(2 * halfR * halfR * S, U)))
        dent == MulS(MulU(pressDisplacement, centerInfluence), 300)
    IN  IF point.depth > DepthEps /\ pressInfluence > U \div 100
        THEN IF dist2 > 1
             THEN <<MulS(MulS(normalX, pushed), 500),
                    MulS(MulS(normalY, pushed), 300) + dent>>
             ELSE <<0, dent>>
        ELSE <<0, 0>>

\* What one press point adds to a vertex: <<dx, dy>>, given the largest
\* region influence at the vertex
pressContribution(v, point, regionInfluence) ==
    LET dx == v.baseX - point.x
        dy == v.baseY - point.y
        dist2 == dx * dx + dy * dy
        dist == Sqrt(dist2)
        pressInfluence == ExpNeg(RDiv(dist2 * S, RDiv(2 * radius * radius * S, U)))
        pressDisplacement == RDiv(point.depth * 15, D \div S)
        combinedInfluence == MulU(pressInfluence, regionInfluence)
        pushed == MulU(pressDisplacement, combinedInfluence)
        normalX == RDiv(dx * S, dist)
        normalY == RDiv(dy * S, dist)
        halfR == RDiv(radius, 2)
        centerInfluence == ExpNeg(RDiv(dist2 * S, RDiv(2 * halfR * halfR * S, U)))
        dent == MulS(MulU(MulU(pressDisplacement, centerInfluence), regionInfluence), 300)
    IN  IF point.depth > DepthEps
           /\ (regionInfluence = NaN \/ ~(regionInfluence < U \div 100))
           /\ pressInfluence > U \div 100
        THEN IF regionInfluence = NaN
             THEN <<IF dist2 > 1 THEN NaN ELSE 0, NaN>>
             ELSE IF dist2 > 1
                  THEN <<MulS(MulS(normalX, pushed), 500),
                         MulS(MulS(normalY, pushed), 300) + dent>>
                  ELSE <<0, dent>>
        ELSE <<0, 0>>

\* One sample of calculateVertexDisplacements
vertexDisplacement(v) ==
    LET ks == 1..Len(regions)
        influence == [k \in ks |-> calculateRegionInfluence(v.baseX, v.baseY, regions[k])]
        counted == { k \in ks : influence[k] > U \div 1000 }
        regionInfluence == IF \E k \in ks : influence[k] = NaN
                           THEN NaN ELSE MaxOver(influence, ks)
        press == [id \in DOMAIN pressPoints |->
                     pressContribution(v, pressPoints[id], regionInfluence)]
        totalDx == SumOver([k \in ks |-> MulU(regions[k].position.x, influence[k])], counted)
                   + SumOver([id \in DOMAIN pressPoints |-> press[id][1]], DOMAIN pressPoints)
        totalDy == SumOver([k \in ks |-> MulU(regions[k].position.y, influence[k])], counted)
                   + SumOver([id \in DOMAIN pressPoints |-> press[id][2]], DOMAIN pressPoints)
    IN  [x |-> v.baseX, y |-> v.baseY,
         dx |-> IF \E id \in DOMAIN pressPoints : press[id][1] = NaN THEN NaN
                ELSE IF Abs(totalDx) < threshold THEN 0 ELSE totalDx,
         dy |-> IF \E id \in DOMAIN pressPoints : press[id][2] = NaN THEN NaN
                ELSE IF Abs(totalDy) < threshold THEN 0 ELSE totalDy,
         influence |-> SumOver(influence, counted)]

\* calculateVertexDisplacements: what update, applyForceAtPosition and
\* getDisplacements return in the current state
calculateVertexDisplacements ==
    [k \in 1..Len(vertices) |-> vertexDisplacement(vertices[k])]


(***************************************************************************)
(* Configuration: the grid and the parameters                              *)
(***************************************************************************)
\* calculateGridSize: <<gridSizeX, gridSizeY>> for a density and an aspect
\* ratio (scale S); Math.round rounds a half up
calculateGridSize(density, aspect) ==
    IF aspect >= S
    THEN <<RDiv(density * aspect, S), density>>
    ELSE <<density, RDiv(density * S, aspect)>>

\* calculateGridSize and initVertices, as every change of the density or of
\* the aspect ratio runs them
rebuildGrid(density, aspect) ==
    LET size == calculateGridSize(density, aspect)
    IN  /\ gridDensity' = density
        /\ aspectRatio' = aspect
        /\ gridSizeX' = size[1]
        /\ gridSizeY' = size[2]
        /\ vertices' = initVertices(size[1], size[2])

setImageAspectRatio(width, height) ==
    /\ rebuildGrid(gridDensity, RDiv(width * S, height))
    /\ last' = [op |-> "setImageAspectRatio", width |-> width, height |-> height]
    /\ UNCHANGED <<paramVars, engineVars>>

\* setGridDensity storing the density without rebuilding the grid
setGridDensityStale(density) ==
    /\ gridDensity' = Max(5, Min(40, density))
    /\ last' = [op |-> "setGridDensity", density |-> density]
    /\ UNCHANGED <<paramVars, engineVars, gridSizeX, gridSizeY, aspectRatio, vertices>>

setGridDensity(density) ==
    /\ rebuildGrid(Max(5, Min(40, density)), aspectRatio)
    /\ last' = [op |-> "setGridDensity", density |-> density]
    /\ UNCHANGED <<paramVars, engineVars>>

\* params[name] where setParams / setPhysicsParams is given it, else old
given(params, name, old) ==
    IF name \in DOMAIN params THEN params[name] ELSE old

setParams(params) ==
    /\ baseStiffness' = given(params, "stiffness", baseStiffness)
    /\ baseDamping' = given(params, "damping", baseDamping)
    /\ mass' = given(params, "mass", mass)
    /\ sensitivity' = given(params, "sensitivity", sensitivity)
    /\ maxDisplacement' = given(params, "maxDisplacement", maxDisplacement)
    /\ IF "gridSize" \in DOMAIN params
       THEN rebuildGrid(params.gridSize, aspectRatio)
       ELSE UNCHANGED gridVars
    /\ last' = [op |-> "setParams", params |-> params]
    /\ UNCHANGED <<posThreshold, velThreshold, engineVars>>

\* A region given a new random stiffness and damping around the bases
retune(region, stiffness, damping, rnd, k) ==
    [region EXCEPT !.stiffness = MulS(stiffness, 700 + MulS(rnd[k + 1], 600)),
                   !.damping = MulS(damping, 950 + MulS(rnd[k + 2], 100))]

setPhysicsParams(params, rnd) ==
    /\ baseStiffness' = given(params, "baseStiffness", baseStiffness)
    /\ baseDamping' = given(params, "baseDamping", baseDamping)
    /\ sensitivity' = given(params, "sensitivity", sensitivity)
    /\ posThreshold' = given(params, "posThreshold", posThreshold)
    /\ velThreshold' = given(params, "velThreshold", velThreshold)
    /\ regions' = [k \in 1..Len(regions) |->
                      retune(regions[k], baseStiffness', baseDamping', rnd, 2 * (k - 1))]
    /\ last' = [op |-> "setPhysicsParams", params |-> params]
    /\ UNCHANGED <<mass, maxDisplacement, gridVars, forceHistory, pressPoints>>

resetToDefaults(rnd) ==
    /\ baseStiffness' = DefaultBaseStiffness
    /\ baseDamping' = DefaultBaseDamping
    /\ sensitivity' = DefaultSensitivity
    /\ posThreshold' = DefaultPosThreshold
    /\ velThreshold' = DefaultVelThreshold
    /\ regions' = [k \in 1..Len(regions) |->
                      retune(regions[k], DefaultBaseStiffness, DefaultBaseDamping,
                             rnd, 2 * (k - 1))]
    /\ last' = [op |-> "resetToDefaults"]
    /\ UNCHANGED <<mass, maxDisplacement, gridVars, forceHistory, pressPoints>>

\* getDisplacements returns calculateVertexDisplacements and changes nothing
getDisplacements ==
    /\ last' = [op |-> "getDisplacements"]
    /\ UNCHANGED <<paramVars, gridVars, engineVars>>

(***************************************************************************)
(* ConfigSpec: the engine under its configuration entry points, with the   *)
(* regions a selection can produce, a press and steps                      *)
(***************************************************************************)
MaxConfigCalls == 3
\* image sizes in pixels: square, landscape and portrait
ImageSizes == { [width |-> 800, height |-> 800], [width |-> 1200, height |-> 800],
                [width |-> 600, height |-> 800] }
\* densities handed to setGridDensity: below, inside and above [5, 40]
Densities == {3, 6, 45}
ParamSets == { [gridSize |-> 4], [gridSize |-> 12, mass |-> -1000],
               [stiffness |-> 200, damping |-> 800, mass |-> 2000,
                sensitivity |-> 2000, maxDisplacement |-> 10000] }
PhysicsParamSets == { [baseStiffness |-> 150], [baseDamping |-> 700, sensitivity |-> 6000],
                      [posThreshold |-> 500, velThreshold |-> 100] }
\* the whole image selected
RegionWide == [x |-> 0, y |-> 0, width |-> 1000, height |-> 1000]
\* a selection dragged beyond the right edge of the image: pixelToNormalized
\* clamps x to 1 and width to 0
RegionThin == [x |-> 1000, y |-> 300, width |-> 0, height |-> 400]
SelectionLists == { <<RegionA>>, <<RegionWide>>, <<RegionA, RegionThin>> }
ConfigForces == { Vec(0, 0), Vec(2000, 1000) }
ConfigPointers == { [force |-> Vec(3000, 0), x |-> 620, y |-> 500],
                    [force |-> Vec(3000, 0), x |-> 1000, y |-> 500] }
ConfigPress == { Vec(900, 100) }
ConfigCall == calls < MaxConfigCalls /\ calls' = calls + 1 /\ UNCHANGED appVars

ConfigNext ==
    \/ ConfigCall /\ \E size \in ImageSizes : setImageAspectRatio(size.width, size.height)
    \/ ConfigCall /\ \E density \in Densities : setGridDensity(density)
    \/ ConfigCall /\ \E params \in ParamSets : setParams(params)
    \/ ConfigCall /\ \E params \in PhysicsParamSets, rnd \in RandStreams :
                         setPhysicsParams(params, rnd)
    \/ ConfigCall /\ \E rnd \in RandStreams : resetToDefaults(rnd)
    \/ ConfigCall /\ \E list \in SelectionLists, rnd \in RandStreams : setRegions(list, rnd)
    \/ ConfigCall /\ \E p \in ConfigPress : startPress(0, p.x, p.y)
    \/ ConfigCall /\ \E force \in ConfigForces : update(force, NoPattern)
    \/ ConfigCall /\ \E in \in ConfigPointers : applyForceAtPosition(in.force, in.x, in.y)
    \/ ConfigCall /\ getDisplacements

ConfigSpec == Init /\ [][ConfigNext]_vars

(***************************************************************************)
(* ScenarioSpec: the constant-force scenario.  One region is added to the  *)
(* constructed engine, then step({x:1, y:0}) is called ScenarioSteps times *)
(***************************************************************************)
ScenarioSteps == 100
ScenarioForce == Vec(1000, 0)
ScenarioStreams ==
    RandStreams \cup { [k \in 1..MaxDraws |-> 500],
                       [k \in 1..MaxDraws |-> IF k % 2 = 1 THEN 0 ELSE 999] }

ScenarioNext ==
    \/ /\ calls = 0
       /\ calls' = 1
       /\ \E rnd \in ScenarioStreams : addRegionCall(RegionA, rnd)
       /\ UNCHANGED appVars
    \/ /\ calls >= 1
       /\ calls <= ScenarioSteps
       /\ calls' = calls + 1
       /\ update(ScenarioForce, NoPattern)
       /\ UNCHANGED appVars

ScenarioSpec == Init /\ [][ScenarioNext]_vars

(***************************************************************************)
(* LiveSpec: the engine under a bounded number of input events, after      *)
(* which only the animation frame runs: App.animate steps the engine with  *)
(* a zero force on every frame, for ever.  In this quiet phase `calls`     *)
(* counts the frames (up to RestTicks) that changed the engine's state.    *)
(***************************************************************************)
MaxInputs == 3
RestTicks == 100
Input == calls < MaxInputs /\ calls' = calls + 1 /\ UNCHANGED appVars
Quiet == calls >= MaxInputs
TicksOver == calls = MaxInputs + RestTicks

\* A zero-force update changes neither the regions nor the force history
\* nor the press points: every later frame leaves the engine as it is
Settled ==
    LET history == pushForce(forceHistory,
                       [x |-> 0, y |-> 0, patternId |-> NoPattern])
    IN  /\ history = forceHistory
        /\ updatePressState(pressPoints) = pressPoints
        /\ \A k \in DOMAIN regions :
              integrate(regions[k],
                        appliedForce(k - 1, delayedForce(history, regions[k])))
                 = regions[k]

\* No further input arrives
Quiesce ==
    /\ calls < MaxInputs
    /\ calls' = MaxInputs
    /\ UNCHANGED <<paramVars, gridVars, engineVars, last, appVars>>

\* One animation frame
Tick ==
    /\ Quiet
    /\ update(Vec(0, 0), NoPattern)
    /\ calls' = IF Settled THEN calls ELSE Min(calls + 1, MaxInputs + RestTicks)
    /\ UNCHANGED appVars

LiveNext ==
    \/ Input /\ \E list \in RegionLists, rnd \in RandStreams : setRegions(list, rnd)
    \/ Input /\ \E in \in StepInputs : update(in.force, in.patternId)
    \/ Input /\ \E in \in PointerInputs : applyForceAtPosition(in.force, in.x, in.y)
    \/ Input /\ \E i \in Impulses, rnd \in RandStreams : applyImpulse(i, rnd)
    \/ Input /\ \E id \in PressIds, p \in PressPositions : startPress(id, p.x, p.y)
    \/ Input /\ \E id \in PressIds, rnd \in RandStreams : endPress(id, rnd)
    \/ Quiesce
    \/ Tick

LiveSpec == Init /\ [][LiveNext]_vars /\ WF_vars(Tick)

(***************************************************************************)
(* FrameSpec: the animation as App runs it.  startAnimation hands the      *)
(* regions to the engine and calls animate; from then on the browser runs  *)
(* animate once per frame and, in between, MotionSensor's callbacks, each  *)
(* of which App.handleMotion turns into a call of the engine.  tickSteps   *)
(* counts the physics steps since the last frame began, its own included.  *)
(***************************************************************************)
MaxCallbacks == 5
Callback == calls >= 1 /\ calls < MaxCallbacks /\ calls' = calls + 1
isAnimating == tickSteps >= 1
\* forces of the 'auto', 'accelerometer', 'mouse' and 'touch' events
MotionEvents == { [force |-> Vec(300, -200), patternId |-> "breath"],
                  [force |-> Vec(1000, 500), patternId |-> NoPattern] }

\* The body of App.startAnimation: setRegions, isAnimating = true and the
\* first animate(), whose step has a zero force
runAnimation(list, rnd) ==
    LET regs == addAll(<<>>, list, rnd, 0)
        history == pushForce(<<>>, [x |-> 0, y |-> 0, patternId |-> NoPattern])
    IN  /\ pressPoints' = updatePressState(pressPoints)
        /\ forceHistory' = history
        /\ regions' = updateInOrder(regs, history, [k \in 1..Len(regs) |-> k])
        /\ last' = [op |-> "startAnimation"]
        /\ tickSteps' = 1
        /\ UNCHANGED <<paramVars, gridVars, app>>

\* App.startAnimation as the first callback of a run
startAnimation(list, rnd) ==
    /\ calls = 0
    /\ calls' = 1
    /\ runAnimation(list, rnd)

\* App.animate: one step with a zero force, then the render
animate ==
    /\ Callback
    /\ update(Vec(0, 0), NoPattern)
    /\ tickSteps' = 1
    /\ UNCHANGED app

\* App.handleMotion, by the type of the event
handleMotion ==
    /\ Callback
    /\ isAnimating
    /\ UNCHANGED app
    /\ \/ /\ \E i \in Impulses, rnd \in RandStreams : applyImpulse(i, rnd)
          /\ UNCHANGED tickSteps
       \/ /\ \E p \in PressPositions : startPress(0, p.x, p.y)
          /\ UNCHANGED tickSteps
       \/ /\ \E rnd \in RandStreams : endPress(0, rnd)
          /\ UNCHANGED tickSteps
       \/ /\ \E in \in PointerInputs : applyForceAtPosition(in.force, in.x, in.y)
          /\ tickSteps' = tickSteps + 1
       \/ /\ \E e \in MotionEvents : update(e.force, e.patternId)
          /\ tickSteps' = tickSteps + 1

FrameNext ==
    \/ \E list \in RegionLists, rnd \in RandStreams : startAnimation(list, rnd)
    \/ animate
    \/ handleMotion

FrameSpec == Init /\ [][FrameNext]_vars

(***************************************************************************)
(* PresetSpec: App's selection, settings and presets.  app.regions is the  *)
(* renderer's region list, app.presets the records of the preset store,    *)
(* app.image the size of the image of currentImageData, app.loading the id *)
(* of the preset whose loadPreset waits for its image (0: none),           *)
(* app.shown the size of the renderer's image, app.loads the calls of      *)
(* loadPreset and loadImage that wait for a promise (LoadSpec),            *)
(* app.sensor the MotionSensor (SensorSpec).                               *)
(***************************************************************************)
MaxAppCalls == 6
AppCall == calls < MaxAppCalls /\ calls' = calls + 1 /\ UNCHANGED tickSteps
PresetImages == { [width |-> 800, height |-> 800], [width |-> 600, height |-> 800] }
PresetRegions == { RegionA, RegionB }
\* the draws the presets' regions are made with
PresetStreams == { [k \in 1..MaxDraws |-> 0], [k \in 1..MaxDraws |-> 999] }
\* what the sliders hand to setPhysicsParams, one field each
SliderParams == { [baseStiffness |-> 150], [baseDamping |-> 700],
                  [posThreshold |-> 500] }
SliderDensities == {6, 20}
\* the regions a draw stream suffices for: addRegion makes three draws
MaxRegions == MaxDraws \div 3

\* {x, y, width, height} of every region of a list
boxes(regs) ==
    [k \in 1..Len(regs) |->
        [x |-> regs[k].x, y |-> regs[k].y,
         width |-> regs[k].width, height |-> regs[k].height]]

getPhysicsParams ==
    [baseStiffness |-> baseStiffness, baseDamping |-> baseDamping,
     sensitivity |-> sensitivity, posThreshold |-> posThreshold,
     velThreshold |-> velThreshold]

\* App.loadImage
loadImage(size) ==
    /\ app.loading = 0
    /\ app' = [app EXCEPT !.image = size, !.shown = size]
    /\ rebuildGrid(gridDensity, RDiv(size.width * S, size.height))
    /\ last' = [op |-> "loadImage"]
    /\ UNCHANGED <<paramVars, engineVars>>

\* App.onRegionSelected
onRegionSelected(region, rnd) ==
    /\ app.loading = 0
    /\ app.image # NoImage
    /\ Len(app.regions) < MaxRegions
    /\ app' = [app EXCEPT !.regions = Append(@, region)]
    /\ regions' = addRegion(regions, region, rnd, 0)
    /\ last' = [op |-> "onRegionSelected"]
    /\ UNCHANGED <<paramVars, gridVars, forceHistory, pressPoints>>

\* Storage.savePreset: the record stored for what saveCurrentPreset hands it
savePreset(preset) ==
    [imageData |-> preset.imageData,
     regions |-> preset.regions,
     physicsParams |-> preset.physicsParams,
     gridDensity |-> IF preset.gridDensity = 0 THEN 10 ELSE preset.gridDensity]

\* App.saveCurrentPreset; atSave records the engine as it is now
saveCurrentPreset ==
    /\ app.loading = 0
    /\ app.image # NoImage
    /\ Len(app.regions) > 0
    /\ app' = [app EXCEPT !.presets =
                  Append(@, [stored |-> savePreset([imageData |-> app.image,
                                                    regions |-> app.regions,
                                                    physicsParams |-> getPhysicsParams,
                                                    gridDensity |-> gridDensity]),
                             atSave |-> [regions |-> boxes(regions),
                                         params |-> getPhysicsParams,
                                         gridDensity |-> gridDensity]])]
    /\ last' = [op |-> "saveCurrentPreset"]
    /\ UNCHANGED <<paramVars, gridVars, engineVars>>

\* App.loadPreset up to its wait for the image: the engine and the renderer
\* are cleared
loadPresetBegin(id) ==
    /\ app.loading = 0
    /\ id \in 1..Len(app.presets)
    /\ app' = [app EXCEPT !.regions = <<>>, !.loading = id,
                          !.image = app.presets[id].stored.imageData]
    /\ regions' = <<>>
    /\ forceHistory' = <<>>
    /\ vertices' = [k \in 1..Len(vertices) |-> [vertices[k] EXCEPT !.dx = 0, !.dy = 0]]
    /\ last' = [op |-> "loadPresetBegin", id |-> id]
    /\ UNCHANGED <<paramVars, gridDensity, gridSizeX, gridSizeY, aspectRatio, pressPoints>>

\* loadPreset restoring everything but the grid density
loadPresetKeepsDensity(rnd, rnd2) ==
    LET preset == app.presets[app.loading].stored
        params == preset.physicsParams
        image == preset.imageData
    IN  /\ app.loading # 0
        /\ app' = [app EXCEPT !.regions = preset.regions, !.loading = 0,
                              !.shown = image]
        /\ rebuildGrid(gridDensity, RDiv(image.width * S, image.height))
        /\ baseStiffness' = given(params, "baseStiffness", baseStiffness)
        /\ baseDamping' = given(params, "baseDamping", baseDamping)
        /\ sensitivity' = given(params, "sensitivity", sensitivity)
        /\ posThreshold' = given(params, "posThreshold", posThreshold)
        /\ velThreshold' = given(params, "velThreshold", velThreshold)
        /\ regions' = LET added == addAll(regions, preset.regions, rnd, 0)
                      IN  [k \in 1..Len(added) |->
                              retune(added[k], baseStiffness', baseDamping',
                                     rnd2, 2 * (k - 1))]
        /\ last' = [op |-> "loadPreset", id |-> app.loading,
                     changed |-> \/ getPhysicsParams # params
                                 \/ gridDensity # preset.gridDensity]
        /\ UNCHANGED <<mass, maxDisplacement, forceHistory, pressPoints>>

\* The rest of App.loadPreset, once the image is there: the aspect ratio,
\* the regions, the physics parameters and the grid density are restored
loadPreset(rnd, rnd2) ==
    LET preset == app.presets[app.loading].stored
        params == preset.physicsParams
        image == preset.imageData
    IN  /\ app.loading # 0
        /\ app' = [app EXCEPT !.regions = preset.regions, !.loading = 0,
                              !.shown = image]
        /\ rebuildGrid(Max(5, Min(40, preset.gridDensity)),
                       RDiv(image.width * S, image.height))
        /\ baseStiffness' = given(params, "baseStiffness", baseStiffness)
        /\ baseDamping' = given(params, "baseDamping", baseDamping)
        /\ sensitivity' = given(params, "sensitivity", sensitivity)
        /\ posThreshold' = given(params, "posThreshold", posThreshold)
        /\ velThreshold' = given(params, "velThreshold", velThreshold)
        /\ regions' = LET added == addAll(regions, preset.regions, rnd, 0)
                      IN  [k \in 1..Len(added) |->
                              retune(added[k], baseStiffness', baseDamping',
                                     rnd2, 2 * (k - 1))]
        /\ last' = [op |-> "loadPreset", id |-> app.loading,
                     changed |-> \/ getPhysicsParams # params
                                 \/ gridDensity # preset.gridDensity]
        /\ UNCHANGED <<mass, maxDisplacement, forceHistory, pressPoints>>

PresetNext ==
    \/ AppCall /\ \E size \in PresetImages : loadImage(size)
    \/ AppCall /\ \E region \in PresetRegions, rnd \in PresetStreams :
                     onRegionSelected(region, rnd)
    \/ AppCall /\ \E params \in SliderParams, rnd \in PresetStreams :
                     setPhysicsParams(params, rnd) /\ UNCHANGED app
    \/ AppCall /\ \E density \in SliderDensities : setGridDensity(density) /\ UNCHANGED app
    \/ AppCall /\ saveCurrentPreset
    \/ AppCall /\ \E id \in 1..Len(app.presets) : loadPresetBegin(id)
    \/ AppCall /\ \E rnd \in PresetStreams, rnd2 \in PresetStreams : loadPreset(rnd, rnd2)

PresetSpec == Init /\ [][PresetNext]_vars

(***************************************************************************)
(* AppSpec: App through its modes.  An image is loaded, regions are        *)
(* selected and deleted, the animation is started, stopped for editing and *)
(* started again, the whole is reset, a preset is saved and loaded; the    *)
(* callbacks of MotionSensor and of the animation frame arrive in every    *)
(* mode.                                                                   *)
(***************************************************************************)
MaxLifeCalls == 7
LifeCall == calls < MaxLifeCalls /\ calls' = calls + 1
LifeImages == { [width |-> 800, height |-> 800] }
LifeStreams == { [k \in 1..MaxDraws |-> 500] }
LifePress == { Vec(450, 500) }
LifeEvents == { [force |-> Vec(1000, 500), patternId |-> NoPattern] }
LifePointers == { [force |-> Vec(3000, 0), x |-> 620, y |-> 500] }

\* a list without its element at the 0-based index, if it has one
spliced(list, index) ==
    IF index >= 0 /\ index < Len(list)
    THEN SubSeq(list, 1, index) \o SubSeq(list, index + 2, Len(list))
    ELSE list

\* deleteRegionAt removing the region from the renderer's list alone
deleteRegionAtRendererOnly(index) ==
    /\ app.loading = 0
    /\ ~isAnimating
    /\ app' = [app EXCEPT !.regions = spliced(@, index)]
    /\ last' = [op |-> "deleteRegionAt", index |-> index]
    /\ UNCHANGED <<paramVars, gridVars, engineVars, tickSteps>>

\* App.deleteRegionAt, called in confirm mode with the index of the region
\* that was hit
deleteRegionAt(index) ==
    /\ app.loading = 0
    /\ ~isAnimating
    /\ app' = [app EXCEPT !.regions = spliced(@, index)]
    /\ regions' = spliced(regions, index)
    /\ last' = [op |-> "deleteRegionAt", index |-> index]
    /\ UNCHANGED <<paramVars, gridVars, forceHistory, pressPoints, tickSteps>>

\* App.enterEditMode: isAnimating = false, the sensor stopped,
\* physics.reset()
enterEditMode ==
    /\ app.loading = 0
    /\ isAnimating
    /\ tickSteps' = 0
    /\ regions' = [k \in 1..Len(regions) |->
                      [regions[k] EXCEPT !.position = Vec(0, 0),
                                         !.velocity = Vec(0, 0)]]
    /\ vertices' = [k \in 1..Len(vertices) |->
                       [vertices[k] EXCEPT !.dx = 0, !.dy = 0]]
    /\ forceHistory' = <<>>
    /\ last' = [op |-> "enterEditMode"]
    /\ UNCHANGED <<paramVars, gridDensity, gridSizeX, gridSizeY, aspectRatio,
                   pressPoints, app>>

\* App.reset: isAnimating = false, the sensor stopped, physics.reset(),
\* both region lists and the image cleared
appReset ==
    /\ app.loading = 0
    /\ app.image # NoImage
    /\ tickSteps' = 0
    /\ regions' = <<>>
    /\ vertices' = [k \in 1..Len(vertices) |->
                       [vertices[k] EXCEPT !.dx = 0, !.dy = 0]]
    /\ forceHistory' = <<>>
    /\ app' = [app EXCEPT !.regions = <<>>, !.image = NoImage, !.shown = NoImage]
    /\ last' = [op |-> "App.reset"]
    /\ UNCHANGED <<paramVars, gridDensity, gridSizeX, gridSizeY, aspectRatio,
                   pressPoints>>

\* The engine call App.handleMotion makes for an event, by its type
motionCall ==
    \/ /\ \E i \in Impulses, rnd \in LifeStreams : applyImpulse(i, rnd)
       /\ UNCHANGED tickSteps
    \/ /\ \E p \in LifePress : startPress(0, p.x, p.y)
       /\ UNCHANGED tickSteps
    \/ /\ \E rnd \in LifeStreams : endPress(0, rnd)
       /\ UNCHANGED tickSteps
    \/ /\ \E in \in LifePointers : applyForceAtPosition(in.force, in.x, in.y)
       /\ tickSteps' = tickSteps + 1
    \/ /\ \E e \in LifeEvents : update(e.force, e.patternId)
       /\ tickSteps' = tickSteps + 1

\* handleMotion without its test of isAnimating
motionCallbackUnguarded ==
    /\ UNCHANGED app
    /\ motionCall

\* App.handleMotion for an event arriving in any mode
motionCallback ==
    /\ UNCHANGED app
    /\ IF ~isAnimating
       THEN /\ last' = [op |-> "handleMotion"]
            /\ UNCHANGED <<paramVars, gridVars, engineVars, tickSteps>>
       ELSE motionCall

\* App.animate for a frame callback arriving in any mode
frameCallback ==
    /\ UNCHANGED app
    /\ IF ~isAnimating
       THEN /\ last' = [op |-> "animate"]
            /\ UNCHANGED <<paramVars, gridVars, engineVars, tickSteps>>
       ELSE /\ update(Vec(0, 0), NoPattern)
            /\ tickSteps' = 1

AppNext ==
    \/ LifeCall /\ UNCHANGED tickSteps /\ \E size \in LifeImages : loadImage(size)
    \/ LifeCall /\ UNCHANGED tickSteps /\ ~isAnimating
          /\ \E region \in PresetRegions, rnd \in LifeStreams : onRegionSelected(region, rnd)
    \/ LifeCall /\ \E index \in 0..(Len(app.regions) - 1) : deleteRegionAt(index)
    \/ LifeCall /\ app.loading = 0 /\ ~isAnimating /\ Len(app.regions) > 0
          /\ \E rnd \in LifeStreams : runAnimation(app.regions, rnd)
    \/ LifeCall /\ motionCallback
    \/ LifeCall /\ frameCallback
    \/ LifeCall /\ enterEditMode
    \/ LifeCall /\ appReset
    \/ LifeCall /\ UNCHANGED tickSteps /\ saveCurrentPreset
    \/ LifeCall /\ tickSteps' = 0 /\ \E id \in 1..Len(app.presets) : loadPresetBegin(id)
    \/ LifeCall /\ UNCHANGED tickSteps
          /\ \E rnd \in LifeStreams, rnd2 \in LifeStreams : loadPreset(rnd, rnd2)

AppSpec == Init /\ [][AppNext]_vars

(***************************************************************************)
(* LoadSpec: loadPreset and loadImage as the asynchronous functions they   *)
(* are.  A call is entered in app.loads when it is made and goes on when   *)
(* the promise it waits for is settled, in any order with the other calls: *)
(* loadPreset waits for getPreset and then for the image to be decoded,    *)
(* loadImage for the file to be read and decoded.                          *)
(***************************************************************************)
MaxLoadCalls == 16
MaxLoads == 2
\* the regions the calls of loadPreset in a list of waiting calls will add
RECURSIVE pendingRegions(_, _)
pendingRegions(presets, loads) ==
    IF loads = <<>> THEN 0
    ELSE (IF Head(loads).kind = "preset"
          THEN Len(presets[Head(loads).id].stored.regions) ELSE 0)
         + pendingRegions(presets, Tail(loads))
LoadCall == calls < MaxLoadCalls /\ calls' = calls + 1
LoadImages == { [width |-> 800, height |-> 800] }
LoadStreams == { [k \in 1..MaxDraws |-> 500] }
\* upload mode: where the file input and the preset list are offered
uploadMode == app.shown = NoImage /\ app.regions = <<>> /\ ~isAnimating

\* a click on the file input or a drop: loadImage(file) is called
loadImageCalled(size) ==
    /\ uploadMode
    /\ Len(app.loads) < MaxLoads
    /\ app' = [app EXCEPT !.loads = Append(@, [kind |-> "image", size |-> size, id |-> 0,
                                                pc |-> "decode"])]
    /\ last' = [op |-> "loadImageCalled"]
    /\ UNCHANGED <<paramVars, gridVars, engineVars, tickSteps>>

\* loadImage once its file is read and decoded: the image is shown and the
\* grid rebuilt for its aspect ratio
loadImageDecoded(c) ==
    LET size == app.loads[c].size
    IN  /\ app.loads[c].kind = "image"
        /\ app' = [app EXCEPT !.image = size, !.shown = size,
                              !.loads = spliced(@, c - 1)]
        /\ rebuildGrid(gridDensity, RDiv(size.width * S, size.height))
        /\ last' = [op |-> "loadImage"]
        /\ UNCHANGED <<paramVars, engineVars, tickSteps>>

\* a click on an item of the preset list: loadPreset(id) is called
loadPresetCalled(id) ==
    /\ uploadMode
    /\ Len(app.loads) < MaxLoads
    /\ id \in 1..Len(app.presets)
    /\ pendingRegions(app.presets, app.loads) + Len(app.presets[id].stored.regions)
          <= MaxRegions
    /\ app' = [app EXCEPT !.loads = Append(@, [kind |-> "preset", size |-> NoImage, id |-> id,
                                                pc |-> "getPreset"])]
    /\ last' = [op |-> "loadPresetCalled", id |-> id]
    /\ UNCHANGED <<paramVars, gridVars, engineVars, tickSteps>>

\* loadPreset once getPreset has answered: the animation is stopped, the
\* engine reset, both region lists cleared, and the image handed to the
\* decoder
loadPresetFetched(c) ==
    /\ app.loads[c].kind = "preset"
    /\ app.loads[c].pc = "getPreset"
    /\ app' = [app EXCEPT !.regions = <<>>,
                          !.image = app.presets[app.loads[c].id].stored.imageData,
                          !.loads[c].pc = "decode"]
    /\ tickSteps' = 0
    /\ regions' = <<>>
    /\ forceHistory' = <<>>
    /\ vertices' = [k \in 1..Len(vertices) |-> [vertices[k] EXCEPT !.dx = 0, !.dy = 0]]
    /\ last' = [op |-> "loadPresetFetched", id |-> app.loads[c].id]
    /\ UNCHANGED <<paramVars, gridDensity, gridSizeX, gridSizeY, aspectRatio, pressPoints>>

\* loadPreset once its image is decoded: the image is shown, the grid
\* rebuilt, the preset's regions added to both lists, its parameters and
\* its grid density restored
loadPresetDecoded(c, rnd, rnd2) ==
    LET preset == app.presets[app.loads[c].id].stored
        params == preset.physicsParams
        image == preset.imageData
    IN  /\ app.loads[c].kind = "preset"
        /\ app.loads[c].pc = "decode"
        /\ app' = [app EXCEPT !.regions = @ \o preset.regions, !.shown = image,
                              !.loads = spliced(@, c - 1)]
        /\ rebuildGrid(Max(5, Min(40, preset.gridDensity)),
                       RDiv(image.width * S, image.height))
        /\ baseStiffness' = given(params, "baseStiffness", baseStiffness)
        /\ baseDamping' = given(params, "baseDamping", baseDamping)
        /\ sensitivity' = given(params, "sensitivity", sensitivity)
        /\ posThreshold' = given(params, "posThreshold", posThreshold)
        /\ velThreshold' = given(params, "velThreshold", velThreshold)
        /\ regions' = LET added == addAll(regions, preset.regions, rnd, 0)
                      IN  [k \in 1..Len(added) |->
                              retune(added[k], baseStiffness', baseDamping',
                                     rnd2, 2 * (k - 1))]
        /\ last' = [op |-> "loadPreset", id |-> app.loads[c].id,
                     pending |-> Len(app.loads) - 1]
        /\ UNCHANGED <<mass, maxDisplacement, forceHistory, pressPoints, tickSteps>>

LoadNext ==
    \/ LoadCall /\ \E size \in LoadImages : loadImageCalled(size)
    \/ LoadCall /\ \E c \in 1..Len(app.loads) : loadImageDecoded(c)
    \/ LoadCall /\ UNCHANGED tickSteps /\ app.shown # NoImage /\ app.loads = <<>>
          /\ Len(regions) < 1
          /\ \E region \in PresetRegions, rnd \in LoadStreams : onRegionSelected(region, rnd)
    \/ LoadCall /\ UNCHANGED tickSteps /\ Len(app.presets) < 2 /\ saveCurrentPreset
    \/ LoadCall /\ app.loads = <<>> /\ appReset
    \/ LoadCall /\ \E id \in 1..Len(app.presets) : loadPresetCalled(id)
    \/ LoadCall /\ \E c \in 1..Len(app.loads) : loadPresetFetched(c)
    \/ LoadCall /\ \E c \in 1..Len(app.loads), rnd \in LoadStreams, rnd2 \in LoadStreams :
                      loadPresetDecoded(c, rnd, rnd2)

LoadSpec == Init /\ [][LoadNext]_vars

(***************************************************************************)
(* SensorSpec: one MotionSensor under start, stop, its switches, the       *)
(* ticks of its interval timers and the events of the window.  last.invoked*)
(* tells whether the step called the callback.                             *)
(***************************************************************************)
MaxSensorCalls == 6
SensorCall ==
    /\ calls < MaxSensorCalls
    /\ calls' = calls + 1
    /\ UNCHANGED <<paramVars, gridVars, engineVars, tickSteps>>
\* tagName of the target of a mousedown
Targets == {"CANVAS", "BUTTON"}

\* startAutoSway: one setInterval unless autoSwayInterval is set
startAutoSway(sensor) ==
    IF sensor.autoSwayInterval # 0 THEN sensor
    ELSE [sensor EXCEPT !.autoSwayInterval = sensor.nextTimer,
                        !.timers = @ \cup {sensor.nextTimer},
                        !.nextTimer = @ + 1]

\* stopAutoSway: clearInterval of autoSwayInterval if it is set
stopAutoSway(sensor) ==
    IF sensor.autoSwayInterval = 0 THEN sensor
    ELSE [sensor EXCEPT !.timers = @ \ {sensor.autoSwayInterval},
                        !.autoSwayInterval = 0]

start ==
    /\ app' = [app EXCEPT !.sensor =
                  IF @.isRunning THEN @
                  ELSE startAutoSway([@ EXCEPT !.isRunning = TRUE, !.listening = TRUE])]
    /\ last' = [op |-> "start", invoked |-> FALSE]

\* stop leaving the interval timer set
stopKeepsTimer ==
    /\ app' = [app EXCEPT !.sensor =
                  IF ~@.isRunning THEN @
                  ELSE [@ EXCEPT !.isRunning = FALSE, !.listening = FALSE]]
    /\ last' = [op |-> "stop", invoked |-> FALSE]

stop ==
    /\ app' = [app EXCEPT !.sensor =
                  IF ~@.isRunning THEN @
                  ELSE stopAutoSway([@ EXCEPT !.isRunning = FALSE, !.listening = FALSE])]
    /\ last' = [op |-> "stop", invoked |-> FALSE]

toggleAuto ==
    /\ app' = [app EXCEPT !.sensor.autoEnabled = ~@]
    /\ last' = [op |-> "toggleAuto", invoked |-> FALSE]

toggleManual ==
    /\ app' = [app EXCEPT !.sensor.manualEnabled = ~@]
    /\ last' = [op |-> "toggleManual", invoked |-> FALSE]

setSensorEnabled(enabled) ==
    /\ app' = [app EXCEPT !.sensor.sensorEnabled = enabled]
    /\ last' = [op |-> "setSensorEnabled", invoked |-> FALSE]

\* One tick of an interval timer that is set: the function startAutoSway
\* gave to setInterval
autoSwayTick(timer) ==
    /\ timer \in app.sensor.timers
    /\ last' = [op |-> "autoSwayTick",
                 invoked |-> app.sensor.isRunning /\ app.sensor.autoEnabled]
    /\ UNCHANGED app

\* A devicemotion event of the window
handleDeviceMotion ==
    /\ app.sensor.listening
    /\ last' = [op |-> "handleDeviceMotion",
                 invoked |-> app.sensor.isRunning /\ app.sensor.sensorEnabled]
    /\ UNCHANGED app

\* A mousedown event of the window on a target
handleMouseDown(target) ==
    /\ app.sensor.listening
    /\ last' = [op |-> "handleMouseDown",
                 invoked |-> /\ app.sensor.isRunning /\ app.sensor.manualEnabled
                             /\ target # "BUTTON"]
    /\ UNCHANGED app

\* A mouseup event of the window
handleMouseUp ==
    /\ app.sensor.listening
    /\ last' = [op |-> "handleMouseUp",
                 invoked |-> app.sensor.isRunning /\ app.sensor.manualEnabled]
    /\ UNCHANGED app

SensorNext ==
    \/ SensorCall /\ start
    \/ SensorCall /\ stop
    \/ SensorCall /\ toggleAuto
    \/ SensorCall /\ toggleManual
    \/ SensorCall /\ \E enabled \in BOOLEAN : setSensorEnabled(enabled)
    \/ SensorCall /\ \E timer \in app.sensor.timers : autoSwayTick(timer)
    \/ SensorCall /\ handleDeviceMotion
    \/ SensorCall /\ \E target \in Targets : handleMouseDown(target)
    \/ SensorCall /\ handleMouseUp

SensorSpec == Init /\ [][SensorNext]_vars

(***************************************************************************)
(* DelaySpec: a stream of numbered forces.  Regions are added one by one,  *)
(* reset empties the history, and the n-th update since the history was    *)
(* last emptied is handed the force numbered n; `calls` is n.              *)
(***************************************************************************)
MaxDelaySteps == 10
MaxDelayRegions == 4
\* the force handed to the n-th update
DelayForce(n) == Vec(10 * n, -10 * n)
DelayStreams == { [k \in 1..MaxDraws |-> 0], [k \in 1..MaxDraws |-> 999] }

DelayNext ==
    \/ /\ Len(regions) < MaxDelayRegions
       /\ \E rnd \in DelayStreams : addRegionCall(RegionA, rnd)
       /\ UNCHANGED <<calls, appVars>>
    \/ /\ calls < MaxDelaySteps
       /\ calls' = calls + 1
       /\ update(DelayForce(calls + 1), NoPattern)
       /\ UNCHANGED appVars
    \/ /\ reset
       /\ calls' = 0
       /\ UNCHANGED appVars

DelaySpec == Init /\ [][DelayNext]_vars

(***************************************************************************)
(* The renderer's reading of a displacement array                          *)
(***************************************************************************)
\* Math.round(Math.sqrt(n)) for a length n
roundSqrt(n) == CHOOSE r \in 0..n : r * r - r < n /\ n <= r * r + r

\* The loop of the inference from the 0-based index i on, over an array of
\* the given length: the index of the first sample whose y differs from
\* the first sample's, or 0 where the loop ends without one
RECURSIVE firstDiffering(_, _, _)
firstDiffering(displacements, length, i) ==
    IF i >= length THEN 0
    ELSE IF displacements[i + 1].y # displacements[1].y THEN i
    ELSE firstDiffering(displacements, length, i + 1)

\* the inference taking the index of the first sample of the second row
\* itself as gridSizeX
inferGridSizeXOffByOne(displacements, length) ==
    LET i == IF length > 1 THEN firstDiffering(displacements, length, 0) ELSE 0
        found == IF i > 0 THEN i ELSE 0
    IN  IF found = 0 THEN roundSqrt(length) - 1 ELSE found

\* gridSizeX as renderWithMeshDeformation and drawMeshGrid infer it from an
\* array and its length: the 0-based index of the first sample whose y
\* differs from the first sample's, minus 1;
\* Math.round(Math.sqrt(length)) - 1 where that is 0
inferGridSizeX(displacements, length) ==
    LET i == IF length > 1 THEN firstDiffering(displacements, length, 0) ELSE 0
        found == IF i > 0 THEN i - 1 ELSE 0
    IN  IF found = 0 THEN roundSqrt(length) - 1 ELSE found

\* gridSizeY as they infer it: Math.round(length / (gridSizeX + 1)) - 1
inferGridSizeY(displacements, length) ==
    RDiv(length, inferGridSizeX(displacements, length) + 1) - 1

\* the 0-based indices i00, i10, i01, i11 of the cell (gx, gy)
cornerIndices(sizeX, gx, gy) ==
    { gy * (sizeX + 1) + gx, gy * (sizeX + 1) + gx + 1,
      (gy + 1) * (sizeX + 1) + gx, (gy + 1) * (sizeX + 1) + gx + 1 }


(***************************************************************************)
(* WarpSpec: Renderer.renderWithMeshDeformation drawing one cell of the    *)
(* mesh.  The renderer's pixel coordinates are held in fortieths of a      *)
(* pixel (R); a transform is held as the numerators of its six entries     *)
(* over their common denominator denom, so that nothing is rounded.  The   *)
(* canvas context is its stack of saved states, its clip and its           *)
(* transform.                                                              *)
(***************************************************************************)
R == 40
MaxRenders == 2
\* the image, in pixels, with <<gridSizeX, gridSizeY>> of the displacement
\* array: densities 5 and 40, the last on an image of one pixel
WarpCases ==
    { [image |-> [width |-> 10, height |-> 10], grid |-> <<5, 5>>],
      [image |-> [width |-> 20, height |-> 10], grid |-> <<10, 5>>],
      [image |-> [width |-> 10, height |-> 20], grid |-> <<5, 10>>],
      [image |-> [width |-> 1, height |-> 1], grid |-> <<40, 40>>] }
\* imageRect for an image: drawn at its own size at the origin, or scaled
\* and centred by the canvas layout
WarpRects(image) ==
    { [x |-> 0, y |-> 0, width |-> image.width, height |-> image.height],
      [x |-> 10, y |-> 4, width |-> 2 * image.width, height |-> 2 * image.height],
      [x |-> 0, y |-> 6, width |-> image.width \div 2, height |-> image.height \div 2] }
\* the cells drawn: those at the corners of the mesh
WarpCells(grid) == { <<gx, gy>> \in {0, grid[1] - 1} \X {0, grid[2] - 1} : TRUE }
\* dx, dy (fortieths of a pixel) of the samples v00, v10, v01, v11 of a cell
WarpDisplacements ==
    { <<Vec(0, 0), Vec(0, 0), Vec(0, 0), Vec(0, 0)>>,
      <<Vec(3, 0), Vec(0, 0), Vec(0, 0), Vec(0, -7)>>,
      <<Vec(25, -10), Vec(25, -10), Vec(25, -10), Vec(25, -10)>>,
      <<Vec(-4, 9), Vec(12, 1), Vec(0, -30), Vec(7, 7)>>,
      <<Vec(0, 0), Vec(-40, 0), Vec(0, -40), Vec(0, 0)>> }

\* The canvas context before a triangle is drawn
CleanContext == [stack |-> <<>>, clip |-> "none", transform |-> "identity"]
\* One call of the context
ctxCall(ctx, call) ==
    CASE call = "save" ->
            [ctx EXCEPT !.stack = Append(@, [clip |-> ctx.clip, transform |-> ctx.transform])]
      [] call = "restore" ->
            IF ctx.stack = <<>> THEN ctx
            ELSE [stack |-> SubSeq(ctx.stack, 1, Len(ctx.stack) - 1),
                  clip |-> ctx.stack[Len(ctx.stack)].clip,
                  transform |-> ctx.stack[Len(ctx.stack)].transform]
      [] call = "clip" -> [ctx EXCEPT !.clip = "triangle"]
      [] call = "transform" -> [ctx EXCEPT !.transform = "affine"]
      [] OTHER -> ctx
\* The context after a sequence of calls
RECURSIVE ctxAfter(_, _)
ctxAfter(ctx, calls_) ==
    IF calls_ = <<>> THEN ctx
    ELSE ctxAfter(ctxCall(ctx, Head(calls_)), Tail(calls_))

\* the determinant of the source triangle
sourceDenom(s) ==
    (s[1].x - s[3].x) * (s[2].y - s[3].y) - (s[2].x - s[3].x) * (s[1].y - s[3].y)
\* the clip path of the expanded triangle
clipCalls == <<"save", "beginPath", "moveTo", "lineTo", "lineTo", "closePath", "clip">>

\* the transform with the two terms of m12 exchanged
transformTransposed(s, d) ==
    LET denom == sourceDenom(s)
        n11 == (d[1].x - d[3].x) * (s[2].y - s[3].y) - (d[2].x - d[3].x) * (s[1].y - s[3].y)
        n12 == (d[1].x - d[3].x) * (s[2].x - s[3].x) - (d[2].x - d[3].x) * (s[1].x - s[3].x)
        n21 == (d[1].y - d[3].y) * (s[2].y - s[3].y) - (d[2].y - d[3].y) * (s[1].y - s[3].y)
        n22 == (d[2].y - d[3].y) * (s[1].x - s[3].x) - (d[1].y - d[3].y) * (s[2].x - s[3].x)
    IN  [n11 |-> n11, n12 |-> n12, n21 |-> n21, n22 |-> n22,
         n13 |-> d[3].x * denom - n11 * s[3].x - n12 * s[3].y,
         n23 |-> d[3].y * denom - n21 * s[3].x - n22 * s[3].y]

\* The transform drawTexturedTriangle computes for the source points s and
\* the destination points d: m11 = n11 / denom and so on
affineTransform(s, d) ==
    LET denom == sourceDenom(s)
        n11 == (d[1].x - d[3].x) * (s[2].y - s[3].y) - (d[2].x - d[3].x) * (s[1].y - s[3].y)
        n12 == (d[2].x - d[3].x) * (s[1].x - s[3].x) - (d[1].x - d[3].x) * (s[2].x - s[3].x)
        n21 == (d[1].y - d[3].y) * (s[2].y - s[3].y) - (d[2].y - d[3].y) * (s[1].y - s[3].y)
        n22 == (d[2].y - d[3].y) * (s[1].x - s[3].x) - (d[1].y - d[3].y) * (s[2].x - s[3].x)
    IN  [n11 |-> n11, n12 |-> n12, n21 |-> n21, n22 |-> n22,
         n13 |-> d[3].x * denom - n11 * s[3].x - n12 * s[3].y,
         n23 |-> d[3].y * denom - n21 * s[3].x - n22 * s[3].y]

\* drawTexturedTriangle returning from the skip without its restore
drawTexturedTriangleLeaks(s, d) ==
    IF Abs(sourceDenom(s)) * 1000 < R * R
    THEN [s |-> s, d |-> d, denom |-> sourceDenom(s), drawn |-> FALSE,
          calls |-> clipCalls]
    ELSE [s |-> s, d |-> d, denom |-> sourceDenom(s), drawn |-> TRUE,
          m |-> affineTransform(s, d),
          calls |-> clipCalls \o <<"transform", "drawImage", "restore">>]

\* drawTexturedTriangle: the calls it makes on the context and, unless
\* |denom| < 0.001 square pixels, the transform it computes
drawTexturedTriangle(s, d) ==
    IF Abs(sourceDenom(s)) * 1000 < R * R
    THEN [s |-> s, d |-> d, denom |-> sourceDenom(s), drawn |-> FALSE,
          calls |-> clipCalls \o <<"restore">>]
    ELSE [s |-> s, d |-> d, denom |-> sourceDenom(s), drawn |-> TRUE,
          m |-> affineTransform(s, d),
          calls |-> clipCalls \o <<"transform", "drawImage", "restore">>]

\* The sample (gx, gy) of a displacement array of the given grid
sampleAt(grid, gx, gy) == Vec(RDiv(gx * S, grid[1]), RDiv(gy * S, grid[2]))
\* v.x * image.width, v.y * image.height
sourcePoint(v, image) ==
    Vec(RDiv(v.x * image.width * R, S), RDiv(v.y * image.height * R, S))
\* imgX + v.x * imgW + v.dx, imgY + v.y * imgH + v.dy
destPoint(v, rect, disp) ==
    Vec(rect.x * R + RDiv(v.x * rect.width * R, S) + disp.x,
        rect.y * R + RDiv(v.y * rect.height * R, S) + disp.y)

\* The body of renderWithMeshDeformation's loops for the cell (gx, gy): the
\* upper and the lower triangle
renderCell(image, rect, grid, gx, gy, disp) ==
    LET v00 == sampleAt(grid, gx, gy)
        v10 == sampleAt(grid, gx + 1, gy)
        v01 == sampleAt(grid, gx, gy + 1)
        v11 == sampleAt(grid, gx + 1, gy + 1)
        s00 == sourcePoint(v00, image)
        s10 == sourcePoint(v10, image)
        s01 == sourcePoint(v01, image)
        s11 == sourcePoint(v11, image)
        d00 == destPoint(v00, rect, disp[1])
        d10 == destPoint(v10, rect, disp[2])
        d01 == destPoint(v01, rect, disp[3])
        d11 == destPoint(v11, rect, disp[4])
    IN  /\ calls < MaxRenders
        /\ calls' = calls + 1
        /\ last' = [op |-> "renderCell",
                     flat |-> \A k \in 1..4 : disp[k] = Vec(0, 0),
                     triangles |-> << drawTexturedTriangle(<<s00, s10, s01>>, <<d00, d10, d01>>),
                                      drawTexturedTriangle(<<s10, s11, s01>>, <<d10, d11, d01>>) >>]
        /\ UNCHANGED <<paramVars, gridVars, engineVars, appVars>>

WarpNext ==
    \E case \in WarpCases, disp \in WarpDisplacements :
       \E rect \in WarpRects(case.image), cell \in WarpCells(case.grid) :
          renderCell(case.image, rect, case.grid, cell[1], cell[2], disp)

WarpSpec == Init /\ [][WarpNext]_vars

(***************************************************************************)
(* Properties                                                              *)
(***************************************************************************)
Steps == {"update", "applyForceAtPosition"}
InRange(v) == Abs(v.x) <= maxDisplacement /\ Abs(v.y) <= maxDisplacement

\* C1: whatever forces update and applyForceAtPosition are given, and
\* however applyImpulse and endPress are interleaved, every region's
\* position stays within [-maxDisplacement, maxDisplacement] on each axis.
C1_PositionClamped ==
    \A k \in DOMAIN regions : InRange(regions[k].position)

\* C1 witness: a step has pinned a region at the limit while its velocity
\* alone would have carried it beyond.
C1_Witness ==
    /\ last.op \in Steps
    /\ \E k \in DOMAIN regions :
          /\ Abs(regions[k].position.x) = maxDisplacement
          /\ Abs(regions[k].velocity.x) > maxDisplacement

\* C2 as stated: every region's velocity stays within
\* [-maxDisplacement, maxDisplacement] on each axis.
C2_VelocityClamped ==
    \A k \in DOMAIN regions : InRange(regions[k].velocity)

\* C2 amended: only the position is clamped.  applyImpulse and endPress
\* change velocities alone: they leave every region's position as it was,
\* hence within the limits, whatever the velocity they produce.
C2_KicksKeepPosition ==
    [][last'.op \in {"applyImpulse", "endPress"} =>
          /\ Len(regions') = Len(regions)
          /\ \A k \in DOMAIN regions :
                /\ regions'[k].position = regions[k].position
                /\ InRange(regions'[k].position)]_vars

\* C2 witness: after an applyImpulse or an endPress that changed it, a
\* velocity lies beyond maxDisplacement, the position within.
C2_Witness ==
    /\ last.op \in {"applyImpulse", "endPress"}
    /\ \E k \in DOMAIN regions :
          /\ Abs(regions[k].velocity.y) > maxDisplacement
          /\ regions[k].position.y # 0
          /\ InRange(regions[k].position)

\* C3: right after an update, no region is left, on either axis, with a
\* position under posThreshold and a velocity under velThreshold unless
\* both are exactly 0.
Snapped(p, v) == (Abs(p) < posThreshold /\ Abs(v) < velThreshold) => (p = 0 /\ v = 0)
C3_SnapAfterUpdate ==
    last.op = "update" =>
        \A k \in DOMAIN regions :
           /\ Snapped(regions[k].position.x, regions[k].velocity.x)
           /\ Snapped(regions[k].position.y, regions[k].velocity.y)

\* C3 witness: an update applied a non-zero force to a region on the x axis
\* and left the axis at exactly 0: the snap has acted.
C3_Witness ==
    /\ last.op = "update"
    /\ \E k \in DOMAIN regions :
          /\ last.applied[k].x # 0
          /\ regions[k].position.x = 0
          /\ regions[k].velocity.x = 0


\* C5 as stated: after reset() and then N >= 1 calls of step({x:0,y:0}),
\* and nothing else, every displacement sample has dx = 0 and dy = 0.
C5_ResetThenZeroStepsFlat ==
    (last.op = "update" /\ last.zeroSinceReset) =>
        \A k \in DOMAIN vertices :
           /\ calculateVertexDisplacements[k].dx = 0
           /\ calculateVertexDisplacements[k].dy = 0

\* C6: reset() leaves every region at position (0,0) and velocity (0,0) and
\* the force history empty, and keeps the number and order of the regions
\* and each region's box, stiffness, damping, delayFrames and phaseOffset.
C6_ResetEffect ==
    [][last'.op = "reset" =>
          /\ forceHistory' = <<>>
          /\ Len(regions') = Len(regions)
          /\ \A k \in DOMAIN regions :
                regions'[k] = [regions[k] EXCEPT !.position = Vec(0, 0),
                                                 !.velocity = Vec(0, 0)]]_vars

\* C6 witness: reset has run on two regions, at least one of them moving,
\* with forces in the history.
C6_Witness ==
    /\ last.op = "reset"
    /\ last.moving > 0
    /\ last.dropped > 0
    /\ Len(regions) = 2

\* C8: update applies to region i, from the history entry e it selects for
\* it, (-e.x, e.y) when e is a knead entry and i is odd, and (e.x, e.y)
\* otherwise; two regions reading the same kneadLeft entry get opposite X
\* and the same Y.
SelectedEntry(k) ==
    forceHistory[Min(regions[k].delayFrames, Len(forceHistory) - 1) + 1]
IsKnead(e) == e.patternId \in {"kneadLeft", "kneadRight"}
C8_KneadMirroring ==
    last.op = "update" =>
        /\ \A k \in DOMAIN regions :
              LET e == SelectedEntry(k)
              IN  last.applied[k] =
                     IF IsKnead(e) /\ (k - 1) % 2 = 1
                     THEN Vec(-e.x, e.y) ELSE Vec(e.x, e.y)
        /\ (/\ Len(regions) >= 2
            /\ SelectedEntry(1) = SelectedEntry(2)
            /\ SelectedEntry(1).patternId = "kneadLeft")
           => /\ last.applied[2].x = -last.applied[1].x
              /\ last.applied[2].y = last.applied[1].y

\* C8 witness: two regions were driven by one kneadLeft entry with a
\* non-zero X.
C8_Witness ==
    /\ last.op = "update"
    /\ Len(regions) = 2
    /\ SelectedEntry(1) = SelectedEntry(2)
    /\ SelectedEntry(1).patternId = "kneadLeft"
    /\ last.applied[1].x # 0
    /\ regions[1].delayFrames # regions[2].delayFrames

\* C10: endPress and updatePressPosition for an id that is not in
\* pressPoints, and removeRegion for an index outside the list, change
\* neither the press points nor the regions nor the force history.
C10_AbsentLookupsChangeNothing ==
    [][(last'.op \in {"endPress", "updatePressPosition", "removeRegion"}
          /\ ~last'.found)
         => UNCHANGED <<pressPoints, regions, forceHistory>>]_vars

\* C10 witness: an endPress for an absent id has run while another point
\* was pressed and regions were moving.
C10_Witness ==
    /\ last.op = "endPress"
    /\ ~last.found
    /\ pressPoints # <<>>
    /\ \E k \in DOMAIN regions : regions[k].velocity # Vec(0, 0)


\* C4: once no input arrives any more and every step is the animation
\* frame's update with a zero force, every region reaches position (0,0)
\* and velocity (0,0) exactly and stays there: within RestTicks frames the
\* engine is in a state that zero-force updates leave as it is, and in
\* every such state all regions are at rest.
AllAtRest == \A k \in DOMAIN regions : AtRest(regions[k])
ScenarioDone == calls = ScenarioSteps + 1
\* one more step of the scenario changes nothing
ScenarioStable ==
    integrate(regions[1], Vec(MulS(ScenarioForce.x, sensitivity), 0)) = regions[1]
C7_StabilisedBelowLimit ==
    ScenarioDone =>
        /\ ScenarioStable
        /\ regions[1].position.x > 0 /\ regions[1].position.x < maxDisplacement
        /\ regions[1].velocity.x > 0 /\ regions[1].velocity.x < maxDisplacement

\* C7 amended: after the 100 steps position.x and velocity.x have
\* stabilised at positive values; velocity.x is below maxDisplacement and
\* position.x is pinned at exactly maxDisplacement.
C7_StabilisedAtLimit ==
    ScenarioDone =>
        /\ ScenarioStable
        /\ regions[1].position.x = maxDisplacement
        /\ regions[1].velocity.x > 0 /\ regions[1].velocity.x < maxDisplacement

\* C7 witness: the 100 steps are done, the history is full of the
\* scenario's force and the region has the softest spring the multiplier
\* admits.
C7_Witness ==
    /\ ScenarioDone
    /\ Len(forceHistory) = historyLength
    /\ regions[1].stiffness = MulS(DefaultBaseStiffness, 700)
    /\ regions[1].position.x = maxDisplacement

\* C9: a point released by endPress (after any number of steps, zero
\* included) is removed by the updates that follow once no later startPress
\* arrives: no released point is left when the engine has settled, which it
\* has within RestTicks frames; and a point released at depth 0 is removed
\* by the first step.
Releasing(id) == id \in DOMAIN pressPoints /\ pressPoints[id].targetDepth = 0
C9_PressLifecycle ==
    /\ [](Quiet => /\ TicksOver => Settled
                   /\ Settled => \A id \in PressIds : ~Releasing(id))
    /\ [][\A id \in PressIds :
            (Releasing(id) /\ pressPoints[id].depth = 0 /\ last'.op \in Steps)
               => id \notin DOMAIN pressPoints']_vars

\* C9 witness: in the quiet phase an update has removed a point that had
\* been released earlier and had decayed over several frames.
C9_Witness ==
    /\ Quiet
    /\ last.op = "update"
    /\ last.removed # {}
    /\ Len(forceHistory) = historyLength


\* C11 as stated: with an empty region list, update, applyForceAtPosition,
\* applyImpulse, reset and endPress leave the force history, the press
\* points, the parameters and the vertices as they were.
EmptyListOps == {"update", "applyForceAtPosition", "applyImpulse", "reset", "endPress"}
C11_EmptyListNoOps ==
    [][(regions = <<>> /\ last'.op \in EmptyListOps)
         => UNCHANGED <<forceHistory, pressPoints, paramVars, vertices>>]_vars

\* C11 amended: with an empty region list these operations leave the region
\* list empty and the parameters and the grid as they were, and applyImpulse
\* changes nothing at all; but update still pushes its force on the history
\* and eases the press points, applyForceAtPosition still eases the press
\* points, reset still empties the history, and endPress still turns its
\* point to releasing.
C11_EmptyListEffects ==
    [][(regions = <<>> /\ last'.op \in EmptyListOps) =>
          /\ regions' = <<>>
          /\ UNCHANGED <<paramVars, gridVars>>
          /\ last'.op = "applyImpulse" => UNCHANGED <<forceHistory, pressPoints>>
          /\ last'.op = "update" =>
                /\ Len(forceHistory') = Min(Len(forceHistory) + 1, historyLength)
                /\ pressPoints' = updatePressState(pressPoints)
          /\ last'.op = "applyForceAtPosition" =>
                /\ forceHistory' = forceHistory
                /\ pressPoints' = updatePressState(pressPoints)
          /\ last'.op = "reset" =>
                /\ forceHistory' = <<>>
                /\ pressPoints' = pressPoints
          /\ last'.op = "endPress" =>
                /\ forceHistory' = forceHistory
                /\ DOMAIN pressPoints' = DOMAIN pressPoints
                /\ \A id \in DOMAIN pressPoints :
                      pressPoints'[id] =
                         IF id = last'.id
                         THEN [pressPoints[id] EXCEPT !.targetDepth = 0]
                         ELSE pressPoints[id]]_vars

\* C11 witness: with no region, an update has pushed a force on the history
\* and eased a pressed point.
C11_Witness ==
    /\ regions = <<>>
    /\ last.op = "update"
    /\ forceHistory # <<>>
    /\ \E id \in DOMAIN pressPoints : pressPoints[id].depth > 0



\* C12: after construction and after any sequence of setImageAspectRatio,
\* setGridDensity and setParams({gridSize}), there are
\* (gridSizeX+1) x (gridSizeY+1) vertices, the shorter image dimension has
\* gridDensity cells and the longer round(gridDensity x longer/shorter);
\* density 10 and aspect ratio 1 give a 10 x 10 grid of 121 vertices.
C12_GridShape ==
    /\ Len(vertices) = (gridSizeX + 1) * (gridSizeY + 1)
    /\ Min(gridSizeX, gridSizeY) = gridDensity
    /\ aspectRatio >= S =>
          gridSizeY = gridDensity /\ gridSizeX = RDiv(gridDensity * aspectRatio, S)
    /\ aspectRatio < S =>
          gridSizeX = gridDensity /\ gridSizeY = RDiv(gridDensity * S, aspectRatio)
    /\ last.op = "setImageAspectRatio" =>
          /\ last.width >= last.height => gridSizeY = gridDensity
          /\ last.width < last.height => gridSizeX = gridDensity
          /\ Max(gridSizeX, gridSizeY) =
                RDiv(gridDensity * Max(last.width, last.height),
                     Min(last.width, last.height))
    /\ (gridDensity = 10 /\ aspectRatio = S) =>
          gridSizeX = 10 /\ gridSizeY = 10 /\ Len(vertices) = 121

\* C12 witness: a portrait image after the density was set, the longer side
\* rounded from a fraction.
C12_Witness ==
    /\ last.op = "setImageAspectRatio"
    /\ last.width < last.height
    /\ gridDensity = 6
    /\ gridSizeX = 6
    /\ gridSizeY = 8
    /\ Len(vertices) = 63

\* C13: the displacement array has (gridSizeX+1) x (gridSizeY+1) samples,
\* row-major by gy then gx: the sample at gy x (gridSizeX+1) + gx has
\* x = gx/gridSizeX and y = gy/gridSizeY.
Returning == {"update", "applyForceAtPosition", "getDisplacements"}
C13_RowMajorSamples ==
    last.op \in Returning =>
        /\ Len(calculateVertexDisplacements) = (gridSizeX + 1) * (gridSizeY + 1)
        /\ \A gx \in 0..gridSizeX, gy \in 0..gridSizeY :
              LET sample == calculateVertexDisplacements[gy * (gridSizeX + 1) + gx + 1]
              IN  /\ sample.x = RDiv(gx * S, gridSizeX)
                  /\ sample.y = RDiv(gy * S, gridSizeY)

\* C13 witness: an update has returned the samples of a grid that is not
\* square, some of them displaced.
C13_Witness ==
    /\ last.op = "update"
    /\ gridSizeX # gridSizeY
    /\ \E k \in DOMAIN vertices : calculateVertexDisplacements[k].dx > 0

\* C14 as stated: whatever setGridDensity, setParams, setPhysicsParams and
\* resetToDefaults are given, gridDensity is within [5, 40] and mass > 0.
C14_ConfigValidated ==
    /\ gridDensity >= 5
    /\ gridDensity <= 40
    /\ mass > 0

\* C15 as stated: with a region of zero width or height in the list, no
\* NaN reaches a displacement sample or a region's position or velocity.
Degenerate(region) == region.width = 0 \/ region.height = 0
C15_DegenerateSkipped ==
    (last.op \in Returning /\ \E k \in DOMAIN regions : Degenerate(regions[k])) =>
        /\ \A k \in DOMAIN vertices :
              /\ calculateVertexDisplacements[k].dx # NaN
              /\ calculateVertexDisplacements[k].dy # NaN
        /\ \A k \in DOMAIN regions :
              /\ regions[k].position.x # NaN /\ regions[k].position.y # NaN
              /\ regions[k].velocity.x # NaN /\ regions[k].velocity.y # NaN

\* The influences of the regions of positive width and height at the
\* vertices of the grid
Proper == { k \in DOMAIN regions : ~Degenerate(regions[k]) }
influenceAt(v, k) == calculateRegionInfluence(v.baseX, v.baseY, regions[k])

\* C16 as stated: the influence of a region of positive width and height at
\* a point of the unit square lies in [0, 1].
C16_InfluenceInUnitRange ==
    \A k \in Proper : \A j \in DOMAIN vertices :
        influenceAt(vertices[j], k) >= 0 /\ influenceAt(vertices[j], k) <= U

\* C16 amended: the influence is never negative and never above the bound
\* 1.5 of the vertical bias multiplier; above the centre it exceeds 1.
C16_InfluenceRange ==
    \A k \in Proper : \A j \in DOMAIN vertices :
        influenceAt(vertices[j], k) >= 0 /\ 2 * influenceAt(vertices[j], k) <= 3 * U

\* C16 witness: at a vertex above a region's centre the influence is over
\* 1, at another beyond the fade it is 0.
C16_Witness ==
    \E k \in Proper :
        /\ \E j \in DOMAIN vertices :
              /\ influenceAt(vertices[j], k) > U
              /\ vertices[j].baseY < centreOf(regions[k]).y
        /\ \E j \in DOMAIN vertices :
              /\ ellipseDistance(vertices[j].baseX, vertices[j].baseY, regions[k]) > fadeEnd
              /\ influenceAt(vertices[j], k) = 0

\* C17: the influence at a region's centre is 1, it is exactly 0 wherever
\* the ellipse distance is at least 1.5, and the two branches of the
\* falloff meet at 0.6.
C17_InfluenceBoundaries ==
    /\ \A k \in Proper :
          /\ calculateRegionInfluence(centreOf(regions[k]).x, centreOf(regions[k]).y,
                                      regions[k]) = U
          /\ \A j \in DOMAIN vertices :
                ellipseDistance(vertices[j].baseX, vertices[j].baseY, regions[k]) >= fadeEnd
                   => influenceAt(vertices[j], k) = 0
    /\ influenceFade(fadeStart) = influenceCore(fadeStart)
    /\ Abs(influenceFade(fadeStart) - influenceCore(fadeStart - 1)) <= 6
    /\ Abs(influenceFade(fadeStart + 1) - influenceFade(fadeStart)) <= 6

\* C17 witness: one region has a vertex at its centre, one in its fade zone
\* with a positive influence and one at distance 1.5 or more.
C17_Witness ==
    \E k \in Proper :
        /\ \E j \in DOMAIN vertices :
              /\ vertices[j].baseX = centreOf(regions[k]).x
              /\ vertices[j].baseY = centreOf(regions[k]).y
              /\ influenceAt(vertices[j], k) = U
        /\ \E j \in DOMAIN vertices :
              /\ ellipseDistance(vertices[j].baseX, vertices[j].baseY, regions[k]) >= fadeStart
              /\ ellipseDistance(vertices[j].baseX, vertices[j].baseY, regions[k]) < fadeEnd
              /\ influenceAt(vertices[j], k) > 0
        /\ \E j \in DOMAIN vertices :
              ellipseDistance(vertices[j].baseX, vertices[j].baseY, regions[k]) >= fadeEnd


\* C18 as stated: between two consecutive animation-frame callbacks the
\* physics step runs exactly once, whatever events arrive in between: when
\* a frame begins, the only step since the previous frame began is that
\* frame's own.
FrameBegins == isAnimating /\ tickSteps' = 1
C18_OneStepPerTick ==
    [][FrameBegins => tickSteps = 1]_vars



\* C19: loadPreset of a saved preset, with no other load in flight, leaves
\* the renderer's and the engine's region lists equal to the list of boxes
\* saved, in the same order, and baseStiffness, baseDamping, sensitivity,
\* posThreshold, velThreshold and gridDensity at their values at save time.
C19_RoundTrip ==
    [][last'.op = "loadPreset" =>
          LET saved == app.presets[app.loading].atSave
          IN  /\ boxes(regions') = saved.regions
              /\ app'.regions = saved.regions
              /\ baseStiffness' = saved.params.baseStiffness
              /\ baseDamping' = saved.params.baseDamping
              /\ sensitivity' = saved.params.sensitivity
              /\ posThreshold' = saved.params.posThreshold
              /\ velThreshold' = saved.params.velThreshold
              /\ gridDensity' = saved.gridDensity]_vars

\* C19 witness: a preset was loaded over settings that differed from the
\* ones saved with it.
C19_Witness ==
    /\ last.op = "loadPreset"
    /\ last.changed
    /\ Len(regions) >= 1
    /\ app.loading = 0


\* C20: in update, each region's new position and velocity depend on its
\* own previous state, its index and the force history after the push
\* alone: the loop gives the same regions in whatever order it takes them,
\* its body for region i changes no other region, and the state of the
\* other regions has no part in the result for region i.
Orders(n) == { order \in [1..n -> 1..n] : \A i, j \in 1..n : order[i] = order[j] => i = j }
\* the list with every region but the one at i brought to rest
OthersAtRest(regs, i) ==
    [k \in 1..Len(regs) |->
        IF k = i THEN regs[k]
        ELSE [regs[k] EXCEPT !.position = Vec(0, 0), !.velocity = Vec(0, 0)]]
C20_RegionsIndependent ==
    [][last'.op = "update" =>
          /\ \A order \in Orders(Len(regions)) :
                regions' = updateInOrder(regions, forceHistory', order)
          /\ \A i \in DOMAIN regions :
                /\ regions'[i] = updateRegionAt(regions, forceHistory', i)[i]
                /\ regions'[i] = updateRegionAt(OthersAtRest(regions, i), forceHistory', i)[i]
                /\ \A j \in DOMAIN regions \ {i} :
                      updateRegionAt(regions, forceHistory', i)[j] = regions[j]]_vars

\* C20 witness: an update has moved two regions that were both in motion,
\* under different forces.
C20_Witness ==
    /\ last.op = "update"
    /\ Len(regions) = 2
    /\ last.applied[1] # last.applied[2]
    /\ regions[1].velocity.x # 0
    /\ regions[2].velocity.x # 0
    /\ regions[1].position # regions[2].position
    /\ Len(forceHistory) >= 2


\* What applyForceAtPosition applies to a region: force x sensitivity x
\* the region's influence at the pointer
pointerForce(force, posX, posY, region) ==
    LET influence == calculateRegionInfluence(posX, posY, region)
    IN  Vec(RDiv(MulS(force.x, sensitivity) * influence, U),
            RDiv(MulS(force.y, sensitivity) * influence, U))

\* C21 as stated: applyForceAtPosition integrates every region of the list
\* exactly once, spring and damping included, under the force
\* force x sensitivity x influence, through the integrate/clamp/snap sequence
\* of update, with no delay and no knead mirroring: the force history is
\* not read and not changed.
C21_EveryRegionIntegrated ==
    [][last'.op = "applyForceAtPosition" =>
          /\ forceHistory' = forceHistory
          /\ Len(regions') = Len(regions)
          /\ \A k \in DOMAIN regions :
                regions'[k] = integrate(regions[k],
                                  pointerForce(last'.force, last'.x, last'.y, regions[k]))]_vars


\* C22: for every source triangle that is not degenerate, the transform of
\* drawTexturedTriangle maps each of the three source vertices exactly onto
\* its destination vertex; and when the destination triangle is the source
\* triangle (no displacement, the image drawn at its own size at the
\* origin) the transform is the identity: m11 = m22 = 1 and
\* m12 = m21 = m13 = m23 = 0.
C22_AffineWarp ==
    last.op = "renderCell" =>
        \A t \in 1..2 :
           LET tri == last.triangles[t]
               m == tri.m
           IN  /\ tri.drawn =>
                     \A i \in 1..3 :
                        /\ m.n11 * tri.s[i].x + m.n12 * tri.s[i].y + m.n13
                              = tri.denom * tri.d[i].x
                        /\ m.n21 * tri.s[i].x + m.n22 * tri.s[i].y + m.n23
                              = tri.denom * tri.d[i].y
               /\ (tri.drawn /\ tri.d = tri.s) =>
                     /\ m.n11 = tri.denom /\ m.n22 = tri.denom
                     /\ m.n12 = 0 /\ m.n21 = 0 /\ m.n13 = 0 /\ m.n23 = 0

\* C22 witness: a cell was drawn whose lower triangle is sheared and moved,
\* its transform neither the identity nor a scaling.
C22_Witness ==
    /\ last.op = "renderCell"
    /\ ~last.flat
    /\ last.triangles[2].drawn
    /\ last.triangles[2].m.n12 # 0
    /\ last.triangles[2].m.n21 # 0
    /\ last.triangles[2].m.n11 # last.triangles[2].denom
    /\ last.triangles[2].m.n13 # 0

\* C22 witness of the identity case: a flat cell was drawn onto itself.
C22_IdentityReached ==
    /\ last.op = "renderCell"
    /\ last.flat
    /\ \A t \in 1..2 : last.triangles[t].drawn /\ last.triangles[t].d = last.triangles[t].s

\* C23: the force history never holds more than historyLength (8) entries;
\* each update puts exactly one entry {force.x x sensitivity,
\* force.y x sensitivity, patternId} at index 0, moves the earlier entries
\* one place down in their order, and drops the oldest entry alone, and
\* only when the history was full; no other operation adds an entry.
\* (Quiesce is the one step of LiveSpec that is no operation of the engine.)
C23_BoundedFifo ==
    /\ [](Len(forceHistory) <= historyLength)
    /\ [][/\ (last'.op = "update" /\ ~Quiesce) =>
                /\ forceHistory'[1] = [x |-> MulS(last'.force.x, sensitivity),
                                       y |-> MulS(last'.force.y, sensitivity),
                                       patternId |-> last'.patternId]
                /\ Len(forceHistory') = Min(Len(forceHistory) + 1, historyLength)
                /\ \A i \in 1..(Len(forceHistory') - 1) :
                      forceHistory'[i + 1] = forceHistory[i]
          /\ (last'.op # "update" \/ Quiesce) =>
                forceHistory' \in {forceHistory, <<>>}]_vars

\* C23 witness: an update on a full history has dropped the oldest entry
\* and kept a non-zero force, pushed seven updates earlier, in the last
\* slot.
C23_Witness ==
    /\ last.op = "update"
    /\ last.full
    /\ Len(forceHistory) = historyLength
    /\ forceHistory[historyLength].x # 0
    /\ forceHistory[historyLength] # forceHistory[historyLength - 1]


\* The number of the update that supplied an applied force of DelaySpec
SuppliedAt(f) == f.x \div MulS(DelayForce(1).x, sensitivity)
\* max(1, n - min(d, 7))
LaggedUpdate(n, d) == Max(1, n - Min(d, historyLength - 1))

\* C24: at the n-th update since the force history was last emptied, a
\* region with delayFrames = d is driven by the force supplied at update
\* max(1, n - min(d, 7)); from one update to the next that number stays or
\* grows by one, so that no force is skipped for a region.
C24_DelayLag ==
    /\ [](last.op = "update" =>
            \A k \in DOMAIN regions :
               /\ last.applied[k] =
                     LET f == DelayForce(LaggedUpdate(calls, regions[k].delayFrames))
                     IN  Vec(MulS(f.x, sensitivity), MulS(f.y, sensitivity))
               /\ SuppliedAt(last.applied[k]) = LaggedUpdate(calls, regions[k].delayFrames))
    /\ [][(last.op = "update" /\ last'.op = "update") =>
             \A k \in DOMAIN regions :
                SuppliedAt(last'.applied[k]) - SuppliedAt(last.applied[k]) \in {0, 1}]_vars

\* C24 witness: at the tenth update, one region lags by 3 steps, one is
\* capped at 7 steps for a delay over 7, and the first has no lag.
C24_Witness ==
    /\ last.op = "update"
    /\ calls = MaxDelaySteps
    /\ Len(regions) = MaxDelayRegions
    /\ regions[1].delayFrames = 0
    /\ regions[2].delayFrames = 3
    /\ regions[4].delayFrames > historyLength - 1
    /\ SuppliedAt(last.applied[1]) = calls
    /\ SuppliedAt(last.applied[2]) = calls - 3
    /\ SuppliedAt(last.applied[4]) = calls - 7


\* C25 as stated: at every moment, after any sequence of addRegion,
\* setRegions, removeRegion and clearRegions, the region at list index i
\* (from 0) has delayFrames in {3i, 3i+1} and phaseOffset = i x pi x 0.3.
C25_IndexDerived ==
    \A k \in DOMAIN regions :
       /\ regions[k].delayFrames \in {3 * (k - 1), 3 * (k - 1) + 1}
       /\ regions[k].phaseOffset = MulS((k - 1) * PiS, 300)


\* C26 as stated: at every moment, after any sequence of addRegion,
\* setRegions, setPhysicsParams, setParams and resetToDefaults, every
\* region's stiffness lies in [0.7, 1.3] x the current baseStiffness and its
\* damping in [0.95, 1.05] x the current baseDamping (one unit of rounding
\* allowed at either end).
C26_RegionParamsInRange ==
    \A k \in DOMAIN regions :
       /\ regions[k].stiffness >= MulS(baseStiffness, 700) - 1
       /\ regions[k].stiffness <= MulS(baseStiffness, 1300) + 1
       /\ regions[k].damping >= MulS(baseDamping, 950) - 1
       /\ regions[k].damping <= MulS(baseDamping, 1050) + 1


\* A step of the engine that runs updatePressState
PressStep == last'.op \in Steps /\ ~Quiesce

\* C27: every updatePressState changes each point's depth by exactly
\* (targetDepth - depth) x rate, the rate being pressSpeed when
\* targetDepth > 0 and releaseSpeed otherwise; every point's targetDepth is
\* 0 or 1 and its depth within [0, 1]; across a step the depth of a
\* pressing point does not fall and that of a releasing point does not rise.
C27_DepthEasing ==
    /\ [](\A id \in DOMAIN pressPoints :
             /\ pressPoints[id].targetDepth \in {0, D}
             /\ pressPoints[id].depth >= 0
             /\ pressPoints[id].depth <= D)
    /\ [][PressStep =>
             \A id \in DOMAIN pressPoints :
                LET point == pressPoints[id]
                    rate == IF point.targetDepth > 0 THEN pressSpeed ELSE releaseSpeed
                    eased == point.depth + RDiv((point.targetDepth - point.depth) * rate, S)
                IN  /\ id \in DOMAIN pressPoints' =>
                          /\ pressPoints'[id].depth = eased
                          /\ pressPoints'[id].targetDepth = point.targetDepth
                          /\ point.targetDepth > 0 => pressPoints'[id].depth >= point.depth
                          /\ point.targetDepth = 0 => pressPoints'[id].depth <= point.depth
                    /\ id \notin DOMAIN pressPoints' => point.targetDepth = 0]_vars

\* C27 witness: a point pressed for one step and then released has sunk
\* back over several steps, and is still there.
C27_Witness ==
    /\ last.op = "update"
    /\ Quiet
    /\ \E id \in DOMAIN pressPoints :
          /\ pressPoints[id].targetDepth = 0
          /\ pressPoints[id].depth > DepthEps
          /\ pressPoints[id].depth < RDiv(D * pressSpeed, S) \div 2


\* C28: a press point disappears only in a step that runs
\* updatePressState, and only if it was releasing (targetDepth = 0) and its
\* depth after the easing is under 0.001 in magnitude; a pressing point is
\* never removed, and no other operation removes a point.
C28_DeletionCondition ==
    [][\A id \in DOMAIN pressPoints :
          id \notin DOMAIN pressPoints' =>
             /\ PressStep
             /\ pressPoints[id].targetDepth = 0
             /\ Abs(easePoint(pressPoints[id]).depth) < DepthEps]_vars

\* C28 witness: a step has removed the one point there was, released
\* earlier, once its depth had run out over many steps.
C28_Witness ==
    /\ last.op = "update"
    /\ last.removed = {0}
    /\ last.full
    /\ pressPoints = <<>>


\* C29 as stated: the release impulse is injected once per press: an
\* endPress for a point that is already releasing changes no region's
\* velocity.
C29_ImpulseOncePerPress ==
    [][(/\ last'.op = "endPress"
        /\ last'.id \in DOMAIN pressPoints
        /\ pressPoints[last'.id].targetDepth = 0)
         => /\ Len(regions') = Len(regions)
            /\ \A k \in DOMAIN regions : regions'[k].velocity = regions[k].velocity]_vars


\* Whether the centre of the region lies at a distance under 0.5 from the
\* point
NearCentre(point, region) ==
    LET dx == point.x - centreOf(region).x
        dy == point.y - centreOf(region).y
    IN  4 * (dx * dx + dy * dy) < S * S

\* C30: endPress on an existing point changes the velocity only of the
\* regions whose centre lies at a distance under 0.5 from the point, and of
\* none when the point's depth is 0; it changes no region's position, not
\* the force history and no other press point, and leaves its own point
\* with targetDepth = 0 and its depth and position as they were.
C30_EndPressFrame ==
    [][(last'.op = "endPress" /\ last'.found) =>
          LET point == pressPoints[last'.id]
          IN  /\ Len(regions') = Len(regions)
              /\ \A k \in DOMAIN regions :
                    /\ [regions'[k] EXCEPT !.velocity = regions[k].velocity] = regions[k]
                    /\ (~NearCentre(point, regions[k]) \/ point.depth = 0)
                          => regions'[k] = regions[k]
              /\ forceHistory' = forceHistory
              /\ DOMAIN pressPoints' = DOMAIN pressPoints
              /\ \A id \in DOMAIN pressPoints \ {last'.id} :
                    pressPoints'[id] = pressPoints[id]
              /\ pressPoints'[last'.id] = [point EXCEPT !.targetDepth = 0]
              /\ UNCHANGED <<paramVars, gridVars>>]_vars

\* C30 witness: an endPress on a point of positive depth has left one
\* region at rest, its centre 0.5 or more away, and set another in motion.
C30_Witness ==
    /\ last.op = "endPress"
    /\ last.found
    /\ pressPoints[last.id].depth > 0
    /\ \E k \in DOMAIN regions :
          /\ ~NearCentre(pressPoints[last.id], regions[k])
          /\ AtRest(regions[k])
    /\ \E k \in DOMAIN regions :
          /\ NearCentre(pressPoints[last.id], regions[k])
          /\ regions[k].velocity # Vec(0, 0)


\* C31 as stated: in every array update, applyForceAtPosition or
\* getDisplacements returns, every sample's dx and every sample's dy is
\* either exactly 0 or of magnitude 0.3 or more.
SnappedAxis(d) == d = 0 \/ (d # NaN /\ Abs(d) >= threshold)
C31_DisplacementSnap ==
    last.op \in Returning =>
        \A k \in DOMAIN vertices :
           /\ SnappedAxis(calculateVertexDisplacements[k].dx)
           /\ SnappedAxis(calculateVertexDisplacements[k].dy)


\* The largest influence of a region at a vertex (0 with no region), and
\* whether one of the influences is NaN
maxInfluenceAt(v) ==
    MaxOver([k \in DOMAIN regions |-> influenceAt(v, k)], DOMAIN regions)
undefinedAt(v) == \E k \in DOMAIN regions : influenceAt(v, k) = NaN
\* What the regions alone give a sample on the two axes, snapped
regionsOnlyAt(v) ==
    LET counted == { k \in DOMAIN regions : influenceAt(v, k) > U \div 1000 }
        sx == SumOver([k \in DOMAIN regions |->
                          MulU(regions[k].position.x, influenceAt(v, k))], counted)
        sy == SumOver([k \in DOMAIN regions |->
                          MulU(regions[k].position.y, influenceAt(v, k))], counted)
    IN  <<IF Abs(sx) < threshold THEN 0 ELSE sx, IF Abs(sy) < threshold THEN 0 ELSE sy>>

\* C32: a press point adds nothing to a sample at a vertex where the
\* largest region influence is under 0.01, and nothing when its depth is
\* 0.001 or less: such a sample is what the regions alone give; with an
\* empty region list every sample has dx = dy = 0 whatever points are
\* pressed.
C32_PressInsideRegions ==
    last.op \in Returning =>
        \A j \in DOMAIN vertices :
           LET v == vertices[j]
               sample == calculateVertexDisplacements[j]
           IN  /\ (\/ ~undefinedAt(v) /\ maxInfluenceAt(v) < U \div 100
                   \/ \A id \in DOMAIN pressPoints : pressPoints[id].depth <= DepthEps)
                     => <<sample.dx, sample.dy>> = regionsOnlyAt(v)
               /\ regions = <<>> => sample.dx = 0 /\ sample.dy = 0

\* C32 witness: with a point pressed in, the sample at the vertex under it
\* is flat because no region reaches the vertex, while a region holds a
\* vertex to which the point does add.
C32_Witness ==
    /\ last.op \in Returning
    /\ \E id \in DOMAIN pressPoints :
          /\ pressPoints[id].depth > DepthEps
          /\ \E j \in DOMAIN vertices :
                /\ vertices[j].baseX = pressPoints[id].x
                /\ vertices[j].baseY = pressPoints[id].y
                /\ maxInfluenceAt(vertices[j]) < U \div 100
                /\ calculateVertexDisplacements[j].dy = 0
          /\ \E j \in DOMAIN vertices :
                /\ ~undefinedAt(vertices[j])
                /\ pressContribution(vertices[j], pressPoints[id],
                                     maxInfluenceAt(vertices[j])) # <<0, 0>>


\* The number of times a call occurs in a sequence of calls
Count(calls_, call) == Cardinality({ i \in DOMAIN calls_ : calls_[i] = call })

\* C33: when the determinant of the source triangle is under 0.001 in
\* magnitude, drawTexturedTriangle computes no transform (it does not
\* divide by denom) and calls neither transform nor drawImage; on the skip
\* path and on the draw path alike it calls save once and restore once,
\* and the context's stack, clip and transform are afterwards what they
\* were before.
C33_DegenerateSkipped ==
    last.op = "renderCell" =>
        \A t \in 1..2 :
           LET tri == last.triangles[t]
           IN  /\ Abs(tri.denom) * 1000 < R * R =>
                     /\ ~tri.drawn
                     /\ "m" \notin DOMAIN tri
                     /\ Count(tri.calls, "transform") = 0
                     /\ Count(tri.calls, "drawImage") = 0
               /\ tri.denom = 0 => ~tri.drawn
               /\ Count(tri.calls, "save") = 1
               /\ Count(tri.calls, "restore") = 1
               /\ ctxAfter(CleanContext, tri.calls) = CleanContext
               /\ \A n \in 1..(Len(tri.calls) - 1) :
                     ctxAfter(CleanContext, SubSeq(tri.calls, 1, n)).stack # <<>>

\* C33 witness: a cell of a one-pixel image at density 40 was rendered: its
\* source triangles are not flat, yet under the threshold, and were
\* skipped with the clip set and then restored.
C33_Witness ==
    /\ last.op = "renderCell"
    /\ \A t \in 1..2 :
          /\ last.triangles[t].denom # 0
          /\ ~last.triangles[t].drawn
          /\ Count(last.triangles[t].calls, "clip") = 1
          /\ ctxAfter(CleanContext, last.triangles[t].calls) = CleanContext


\* C34: for every displacement array the engine produces with
\* gridSizeX >= 1 and gridSizeY >= 1, the gridSizeX and gridSizeY the
\* renderer infers from the array are the engine's, and the corner indices
\* of every cell it draws are within the array.
C34_GridInference ==
    (gridSizeX >= 1 /\ gridSizeY >= 1) =>
        /\ inferGridSizeX(calculateVertexDisplacements, Len(vertices)) = gridSizeX
        /\ inferGridSizeY(calculateVertexDisplacements, Len(vertices)) = gridSizeY
        /\ \A gx \in 0..(gridSizeX - 1), gy \in 0..(gridSizeY - 1) :
              \A i \in cornerIndices(gridSizeX, gx, gy) :
                 0 <= i /\ i < Len(vertices)

\* C34 witness: on a grid wider than high, rebuilt for a landscape image,
\* the engine returned an array with a displaced sample and the inference
\* gave the engine's gridSizeX.
C34_Witness ==
    /\ last.op = "update"
    /\ gridSizeX > gridSizeY
    /\ Len(regions) > 0
    /\ \E k \in 1..Len(vertices) :
          vertexDisplacement(vertices[k]).dx \notin {0, NaN}
    /\ inferGridSizeX(calculateVertexDisplacements, Len(vertices)) = gridSizeX


\* C35: after every completed operation of App the renderer's and the
\* engine's region lists have the same length, and the regions at each
\* index the same x, y, width and height.
C35_ListsInStep == boxes(regions) = boxes(app.regions)

\* C35 witness: the first of two selected regions was deleted, and the
\* second is now the only one of both lists.
C35_Witness ==
    /\ last.op = "deleteRegionAt"
    /\ last.index = 0
    /\ Len(regions) = 1
    /\ boxes(regions) = <<RegionB>>
    /\ app.regions = <<RegionB>>


\* what the last step of a run of App was, when it was a callback of
\* MotionSensor or of the animation frame
CallbackOps == {"handleMotion", "animate", "applyImpulse", "startPress", "endPress",
                "applyForceAtPosition", "update"}

\* C37: while isAnimating is false no callback of MotionSensor (tap,
\* pressStart, pressEnd, pointerMove, force) and no animation-frame
\* callback changes the engine: its regions, force history, press points,
\* vertices and parameters are what they were.
C37_NoMutationWhenStopped ==
    [][(~isAnimating /\ last'.op \in CallbackOps)
          => UNCHANGED <<paramVars, gridVars, engineVars>>]_vars

\* C37 witness: after an animation in which the pointer was pressed, a
\* callback arrived while isAnimating was false and was dropped.
C37_Witness ==
    /\ last.op \in {"handleMotion", "animate"}
    /\ ~isAnimating
    /\ Len(regions) > 0
    /\ DOMAIN pressPoints # {}

\* C38: after App.enterEditMode() or App.reset() no press point with a
\* target depth above 0 (a point still pressing) remains in pressPoints.
C38_NoPressAfterStop ==
    last.op \in {"enterEditMode", "App.reset"} =>
        \A id \in DOMAIN pressPoints : pressPoints[id].targetDepth = 0


\* C36: when a call of loadPreset(id) completes, the renderer's and the
\* engine's region lists are that preset's regions, in number and order,
\* and the image shown is that preset's image, also when another
\* loadPreset or a loadImage was started while it waited.
C36_LoadAtomic ==
    last.op = "loadPreset" =>
        LET preset == app.presets[last.id].stored
        IN  /\ app.regions = preset.regions
            /\ boxes(regions) = boxes(preset.regions)
            /\ app.shown = preset.imageData

\* a loadPreset completed while another call was waiting, with the claimed
\* outcome
C36_Overlapped ==
    /\ last.op = "loadPreset"
    /\ last.pending > 0
    /\ app.regions = app.presets[last.id].stored.regions


\* C39: start() while running and stop() while not running change
\* nothing; while the sensor runs exactly one interval timer is set, the
\* one in autoSwayInterval, however often start() was called; after stop()
\* no timer is set and no listener attached, and the callback is not
\* called until the next start(); and a tick of the timer calls the
\* callback only when autoEnabled is true.
C39_StartStop ==
    /\ [](/\ app.sensor.isRunning =>
               /\ Cardinality(app.sensor.timers) = 1
               /\ app.sensor.autoSwayInterval \in app.sensor.timers
          /\ ~app.sensor.isRunning =>
               /\ app.sensor.timers = {}
               /\ app.sensor.autoSwayInterval = 0
               /\ ~app.sensor.listening)
    /\ [][/\ (last'.op = "start" /\ app.sensor.isRunning) => app'.sensor = app.sensor
          /\ (last'.op = "stop" /\ ~app.sensor.isRunning) => app'.sensor = app.sensor
          /\ last'.invoked => app.sensor.isRunning
          /\ (last'.op = "autoSwayTick" /\ last'.invoked) => app.sensor.autoEnabled]_vars

\* C39 witness: the sensor was started, stopped and started again, and a
\* tick of its second timer called the callback, the only timer set.
C39_Witness ==
    /\ last.op = "autoSwayTick"
    /\ last.invoked
    /\ app.sensor.autoSwayInterval = 2
    /\ app.sensor.timers = {2}

=============================================================================
